---- MODULE Spec2Model ----
(***************************************************************************)
(* Workflow execution engine of AutomatorOS (lib/workflowEngine.ts, kept   *)
(* in this tree as src/unnamed/part_012): withRetry, processNode and       *)
(* executeWorkflow, as a state machine of one run.                         *)
(*                                                                         *)
(* Representation.  A context / config / step is a function from field     *)
(* names to values; a field that JavaScript leaves undefined is absent     *)
(* from the DOMAIN.  A log line is a record whose field ev names the line  *)
(* and whose other fields are the interpolated values.  Date.now() is the  *)
(* variable now (milliseconds); wait(ms) advances it by ms.  `run-<ms>`    *)
(* and `step-<ms>` ids are represented by their millisecond part.          *)
(* Math.random(), the user code of SCRIPT nodes and the remote services    *)
(* are nondeterministic choices over bounded sets.                         *)
(***************************************************************************)
EXTENDS Integers, Sequences, FiniteSets, TLC

\* ------------------------------------------------------------------ bounds
\* number of distinct values Math.random() contributes to the simulated delay
NumDelays == 2
\* a run on a cyclic graph is cut after this many steps
MaxSteps == 4

\* --------------------------------------------------------- program constants
MAX_RETRIES == 3
BASE_DELAY == 1000
\* isAI || isScript ? 500 : ...
FixedDelay == 500
\* Math.floor(Math.random() * 1500) + 500
MinRandomDelay == 500
DelayStep == 700

\* ------------------------------------------------------------ generic helpers
\* {...a, ...b}
Spread(a, b) ==
  [k \in (DOMAIN a) \cup (DOMAIN b) |-> IF k \in DOMAIN b THEN b[k] ELSE a[k]]

\* {}
EmptyObj == [k \in {} |-> 0]

Last(s) == s[Len(s)]

\* 2^n
RECURSIVE Pow2(_)
Pow2(n) == IF n <= 0 THEN 1 ELSE 2 * Pow2(n - 1)

\* String.prototype.toLowerCase on the strings the model uses
ToLowerCase(s) ==
  CASE s = "TRUE" -> "true"
    [] s = "True" -> "true"
    [] s = "False" -> "false"
    [] s = "System" -> "system"
    [] s = "Wait 5m" -> "wait 5m"
    [] s = "New Order" -> "new order"
    [] s = "Value > $100" -> "value > $100"
    [] s = "Alert VIP" -> "alert vip"
    [] s = "Log Order" -> "log order"
    [] s = "Step" -> "step"
    [] OTHER -> s

\* lowercased.includes(sub) on the strings the model uses
Includes(s, sub) ==
  CASE sub = "gemini" -> s \in {"gemini"}
    [] sub = "ai" -> s \in {"ai", "gmail"}
    [] sub = "wait" -> s \in {"wait 5m"}
    [] OTHER -> FALSE

\* parseFloat(x) || 0 for a number x
ParseFloatNumOr0(x) == x

\* parseFloat(s) || 0 for a string s: NaN (and 0) become 0
ParseFloatStrOr0(s) ==
  CASE s = "42" -> 42
    [] s = "150" -> 150
    [] OTHER -> 0

\* the undefined label of an edge, the undefined code of a script
Undefined == "undefined"

\* ------------------------------------------------------------------- types.ts
\* enum NodeType
NodeType_TRIGGER == "TRIGGER"
NodeType_ACTION == "ACTION"
NodeType_CONDITION == "CONDITION"
NodeType_AI == "AI"
NodeType_SCRIPT == "SCRIPT"

\* interface WorkflowNode (x, y are for visualization only)
WorkflowNode(id, type, service, label, config) ==
  [id |-> id, type |-> type, service |-> service, label |-> label, config |-> config]

\* interface WorkflowEdge; label is optional
WorkflowEdge(id, source, target, label) ==
  [id |-> id, source |-> source, target |-> target, label |-> label]

\* ------------------------------------------------------- inputs of the model
\* values Math.floor(Math.random() * 500) takes in the model
TotalValues == {50, 150}

\* what evaluating new Function('input', userCode)(input) can do: throw, or return an
\* object or a scalar.  The user code of the model reads `input` and does not assign
\* to its fields.
ScriptOutcomes(userCode) ==
  CASE userCode = "return {a:1}" -> {[kind |-> "object", value |-> [a |-> 1]]}
    [] userCode = "return {a:2,b:3}" -> {[kind |-> "object", value |-> [a |-> 2, b |-> 3]]}
    [] userCode = "return 7" -> {[kind |-> "scalar", value |-> 7]}
    [] userCode = "throw new Error('boom')" -> {[kind |-> "throw", message |-> "boom"]}
    [] userCode = "flaky" -> {[kind |-> "throw", message |-> "flaky-1"],
                              [kind |-> "throw", message |-> "flaky-2"],
                              [kind |-> "object", value |-> [b |-> 9]]}
    [] userCode = "return { status: 'noop' };" ->
                             {[kind |-> "object", value |-> [status |-> "noop"]]}
    [] OTHER -> {[kind |-> "throw", message |-> "SyntaxError"]}

TriggerNode(service) == WorkflowNode("A", NodeType_TRIGGER, service, "New Order", EmptyObj)
ConditionNode(service, operator, threshold) ==
  WorkflowNode("B", NodeType_CONDITION, service, "Value > $100",
               [variable |-> "totalValue", operator |-> operator, threshold |-> threshold])
SlackNode == WorkflowNode("C", NodeType_ACTION, "slack", "Alert VIP", [channel |-> "#vip-orders"])
SheetsNode == WorkflowNode("D", NodeType_ACTION, "sheets", "Log Order", EmptyObj)
ActionNode(id, service) == WorkflowNode(id, NodeType_ACTION, service, "Step", EmptyObj)
ScriptNode(id, code) ==
  WorkflowNode(id, NodeType_SCRIPT, "script", "Step",
               IF code = Undefined THEN EmptyObj ELSE [code |-> code])

\* Trigger(A) -> Condition(B) -> {true: C, false: D}, in several edge orders and
\* label spellings, with the trigger and condition services varied
BranchGraphs ==
  { [nodes |-> <<TriggerNode(ts), ConditionNode(cs, ">", 100), SlackNode, SheetsNode>>,
     edges |-> es] :
      ts \in {"webhook", "shopify"}, cs \in {"system", "logic"},
      es \in { << WorkflowEdge("e1", "A", "B", Undefined),
                  WorkflowEdge("e2", "B", "C", "true"),
                  WorkflowEdge("e3", "B", "D", "false") >>,
               << WorkflowEdge("e3", "B", "D", "false"),
                  WorkflowEdge("e2", "B", "C", "true"),
                  WorkflowEdge("e1", "A", "B", Undefined) >>,
               << WorkflowEdge("e3", "B", "D", "False"),
                  WorkflowEdge("e1", "A", "B", Undefined),
                  WorkflowEdge("e2", "B", "C", "TRUE") >> } }

\* Trigger -> Action -> Action, the node list in edge order or reversed
LinearGraphs ==
  { [nodes |-> IF rev THEN << y, x, TriggerNode("webhook") >>
                      ELSE << TriggerNode("webhook"), x, y >>,
     edges |-> << WorkflowEdge("e1", "A", "B", Undefined),
                  WorkflowEdge("e2", "B", "C", Undefined) >>] :
      rev \in BOOLEAN,
      x \in {ActionNode("B", "gmail"), ActionNode("B", "shopify")},
      y \in {ActionNode("C", "slack"), ActionNode("C", "notion")} }

\* Trigger -> Script -> Script
ScriptGraphs ==
  { [nodes |-> << TriggerNode("system"), ScriptNode("B", c1), ScriptNode("C", c2) >>,
     edges |-> << WorkflowEdge("e1", "A", "B", Undefined),
                  WorkflowEdge("e2", "B", "C", Undefined) >>] :
      c1 \in {"return {a:1}", "return 7", "throw new Error('boom')"},
      c2 \in {"return {a:2,b:3}", "flaky", Undefined} }

\* graphs validation would reject, which executeWorkflow accepts all the same
IrregularGraphs ==
  { [nodes |-> << >>, edges |-> << >>],
    [nodes |-> << WorkflowNode("A", NodeType_AI, "gemini", "Step", EmptyObj) >>,
     edges |-> << >>],
    \* condition whose edges carry no label
    [nodes |-> << TriggerNode("webhook"), ConditionNode("System", "<", 100), SlackNode, SheetsNode >>,
     edges |-> << WorkflowEdge("e1", "A", "B", Undefined),
                  WorkflowEdge("e2", "B", "D", Undefined),
                  WorkflowEdge("e3", "B", "C", Undefined) >>],
    \* condition without outgoing edge
    [nodes |-> << TriggerNode("webhook"), ConditionNode("system", "==", 150) >>,
     edges |-> << WorkflowEdge("e1", "A", "B", Undefined) >>],
    \* edge to a node that does not exist
    [nodes |-> << TriggerNode("webhook"), SlackNode >>,
     edges |-> << WorkflowEdge("e1", "A", "Z", Undefined),
                  WorkflowEdge("e2", "A", "C", Undefined) >>],
    \* cycle A -> B -> A: every node has an incoming edge
    [nodes |-> << ActionNode("A", "slack"), WorkflowNode("B", NodeType_ACTION, "system", "Wait 5m", EmptyObj) >>,
     edges |-> << WorkflowEdge("e1", "A", "B", Undefined),
                  WorkflowEdge("e2", "B", "A", Undefined) >>],
    \* cycle B -> C -> B behind the trigger
    [nodes |-> << TriggerNode("webhook"), ActionNode("B", "notion"), SlackNode >>,
     edges |-> << WorkflowEdge("e1", "A", "B", Undefined),
                  WorkflowEdge("e2", "B", "C", Undefined),
                  WorkflowEdge("e3", "C", "B", Undefined) >>],
    \* two nodes without incoming edge, the trigger second in the list
    [nodes |-> << SlackNode, TriggerNode("webhook") >>, edges |-> << >>],
    \* condition whose only outgoing edge is labelled 'true'
    [nodes |-> << TriggerNode("webhook"), ConditionNode("system", ">", 100), SlackNode >>,
     edges |-> << WorkflowEdge("e1", "A", "B", Undefined),
                  WorkflowEdge("e2", "B", "C", "true") >>] }

Graphs == BranchGraphs \cup LinearGraphs \cup ScriptGraphs \cup IrregularGraphs

\* payloads handed to executeWorkflow; the first is the default parameter value
InitialInputs ==
  { [trigger |-> "manual_execution"],
    [totalValue |-> 150],
    [totalValue |-> 50],
    [totalValue |-> 50, conditionResult |-> TRUE] }

\* ------------------------------------------------------------ resolveConfig
\* resolveConfig(node.config, input).  The configs of the model's graphs hold
\* numbers (returned as they are, last line of resolveConfig) and strings
\* without a {{...}} token (String.replace finds no match); the object branch
\* rebuilds the map key by key.
resolveConfig(config, context) == [key \in DOMAIN config |-> config[key]]

\* -------------------------------------------------------------- processNode
\* decimal digits of a natural number, String(n)
RECURSIVE Digits(_)
Digits(n) == IF n < 10 THEN <<n>> ELSE Append(Digits(n \div 10), n % 10)

\* String(val).includes(String(threshold)) for natural numbers
StringIncludes(val, threshold) ==
  LET v == Digits(val)
      t == Digits(threshold)
  IN \E i \in 0..(Len(v) - Len(t)) : SubSeq(v, i + 1, i + Len(t)) = t

\* isAI, computed from node.service and node.type
isAI(node) ==
  \/ Includes(ToLowerCase(node.service), "gemini")
  \/ Includes(ToLowerCase(node.service), "ai")
  \/ node.type = NodeType_AI

isScript(node) == node.type = NodeType_SCRIPT

\* the values `delay` can take for a node
Delays(node) ==
  IF isAI(node) \/ isScript(node)
    THEN {FixedDelay}
    ELSE {MinRandomDelay + k * DelayStep : k \in 0..(NumDelays - 1)}

\* new Error(message), printed by `${error}` as "Error: <message>"
Error(parts) == [message |-> parts]

\* result of the condition evaluation of case 'system'
ConditionVal(node, input) ==
  LET varName == IF "variable" \in DOMAIN node.config THEN node.config.variable ELSE Undefined
  IN IF varName \in DOMAIN input THEN input[varName] ELSE ParseFloatStrOr0(varName)

ConditionThreshold(finalConfig) ==
  IF "threshold" \in DOMAIN finalConfig THEN ParseFloatNumOr0(finalConfig.threshold) ELSE 0

ConditionOperator(finalConfig) ==
  IF "operator" \in DOMAIN finalConfig /\ finalConfig.operator # "" THEN finalConfig.operator ELSE ">"

ConditionResult(node, input, finalConfig) ==
  LET val == ConditionVal(node, input)
      threshold == ConditionThreshold(finalConfig)
      operator == ConditionOperator(finalConfig)
  IN CASE operator = ">" -> val > threshold
       [] operator = "<" -> val < threshold
       [] operator = "==" -> val = threshold
       [] operator = "!=" -> val # threshold
       [] operator = "contains" -> StringIncludes(val, threshold)
       [] OTHER -> TRUE

Returned(lines, out) == [ok |-> TRUE, logs |-> lines, output |-> out]
Thrown(lines, err) == [ok |-> FALSE, logs |-> lines, error |-> err]

\* one evaluation of doWork on a SCRIPT node
DoWorkScript(node, input, out) ==
  LET userCode == IF "code" \in DOMAIN node.config /\ node.config.code # ""
                    THEN node.config.code ELSE "return { status: 'noop' };"
      sandbox == [ev |-> "Executing custom script sandbox..."]
  IN { IF r.kind = "throw"
         THEN Thrown(<<sandbox>>, Error(<<"Script Error: ", r.message>>))
         ELSE Returned(<<sandbox, [ev |-> "Script execution completed."]>>,
                       IF r.kind = "object" THEN Spread(out, r.value)
                                            ELSE Spread(out, [result |-> r.value]))
       : r \in ScriptOutcomes(userCode) }

\* variant: a service without a handler is an error
GenericHandler_Unsupported(node, out) ==
  { Thrown(<< >>, Error(<<"Unsupported service">>)) }

\* the default case of the service switch
GenericHandler(node, out) ==
  { Returned(<< [ev |-> "Executing generic handler", service |-> node.service] >>, out) }

\* one evaluation of doWork on a node of any other type: the service switch
DoWorkService(node, input, out, finalConfig) ==
  LET service == ToLowerCase(node.service)
  IN CASE service = "gmail" ->
            { Returned(IF node.type = NodeType_ACTION
                         THEN << [ev |-> "Connecting to SMTP server..."],
                                 [ev |-> "Authenticating..."],
                                 [ev |-> "Sending email to", to |->
                                    IF "to" \in DOMAIN finalConfig THEN finalConfig.to ELSE "recipient"],
                                 [ev |-> "Subject", subject |->
                                    IF "subject" \in DOMAIN finalConfig THEN finalConfig.subject
                                                                        ELSE "(No Subject)"] >>
                         ELSE << >>, out) }
       [] service = "slack" ->
            { Returned(<< [ev |-> "Resolving channel ID..."],
                          [ev |-> "Posting message", channel |->
                             IF "channel" \in DOMAIN finalConfig THEN finalConfig.channel
                                                                 ELSE "channel"] >>, out) }
       [] service = "shopify" ->
            LET fetch == << [ev |-> "Fetching order data..."], [ev |-> "Rate limit check: OK"] >>
            IN { Thrown(fetch, Error(<<"Shopify API Rate Limit Exceeded">>)) }
               \cup { Returned(fetch \o << [ev |-> "Order Value", totalValue |-> tv] >>,
                               Spread(out, [orderId |-> "#SH-1", totalValue |-> tv]))
                      : tv \in TotalValues }
       [] service \in {"gemini", "ai", "gpt"} ->
            { Returned(<< [ev |-> "Building prompt context..."],
                          [ev |-> "Sending request", model |->
                             IF "model" \in DOMAIN finalConfig THEN finalConfig.model
                                                               ELSE "gemini-2.5-flash"],
                          [ev |-> "LLM Response received"] >>,
                       Spread(out, [aiResult |-> ai]))
              : ai \in {"summary", "Error generating content"} }
       [] service = "system" ->
            LET timer == IF Includes(ToLowerCase(node.label), "wait")
                           THEN << [ev |-> "Timer started..."], [ev |-> "Timer fired."] >>
                           ELSE << >>
                result == ConditionResult(node, input, finalConfig)
            IN IF node.type = NodeType_CONDITION
                 THEN { Returned(timer \o << [ev |-> "Evaluating condition logic..."],
                                             [ev |-> "Check", val |-> ConditionVal(node, input),
                                              operator |-> ConditionOperator(finalConfig),
                                              threshold |-> ConditionThreshold(finalConfig),
                                              result |-> result] >>,
                                 Spread(out, [conditionResult |-> result])) }
                 ELSE { Returned(timer, out) }
       [] OTHER -> GenericHandler(node, out)

\* doWork: what one attempt can do, given the output accumulated so far
doWork(node, input, out) ==
  IF node.type = NodeType_SCRIPT
    THEN DoWorkScript(node, input, out)
    ELSE DoWorkService(node, input, out, resolveConfig(node.config, input))

\* (ms / 1000).toFixed(1) + 's' and toFixed(2) + 's', as <<seconds, fraction>>
ToFixed1(ms) == LET t == (ms + 50) \div 100 IN <<t \div 10, t % 10>>
ToFixed2(ms) == LET t == (ms + 5) \div 10 IN <<t \div 100, t % 100>>

\* ----------------------------------------------------------- executeWorkflow
\* index of the first element of seq satisfying Test, 0 for undefined (Array.find)
FindIndex(seq, Test(_)) ==
  IF \E i \in 1..Len(seq) : Test(seq[i])
    THEN CHOOSE i \in 1..Len(seq) : Test(seq[i]) /\ \A j \in 1..(i - 1) : ~Test(seq[j])
    ELSE 0

\* variant: always start at nodes[0]
StartNode_First(ns, es) == IF Len(ns) > 0 THEN 1 ELSE 0

\* variant: start at the first TRIGGER node, else nodes[0]
StartNode_Trigger(ns, es) ==
  LET found == FindIndex(ns, LAMBDA n : n.type = NodeType_TRIGGER)
  IN IF found # 0 THEN found ELSE IF Len(ns) > 0 THEN 1 ELSE 0

\* start node selection: first node without incoming edge, else nodes[0]
StartNode(ns, es) ==
  LET incomingEdges == {es[i].target : i \in 1..Len(es)}
      found == FindIndex(ns, LAMBDA n : n.id \notin incomingEdges)
  IN IF found # 0 THEN found ELSE IF Len(ns) > 0 THEN 1 ELSE 0

\* nodes.find(n => n.id === target)
NodeById(ns, target) == FindIndex(ns, LAMBDA n : n.id = target)

\* e.label?.toLowerCase() === targetLabel
LabelMatches(e, targetLabel) == e.label # Undefined /\ ToLowerCase(e.label) = targetLabel

\* variant: the linear transition for every node type, labels ignored
NextNode_FirstEdge(ns, es, node, out) ==
  LET nextEdge == FindIndex(es, LAMBDA e : e.source = node.id)
  IN IF nextEdge # 0 THEN NodeById(ns, es[nextEdge].target) ELSE 0

\* variant: a condition without an edge of the wanted label ends the flow
NextNode_NoFallback(ns, es, node, out) ==
  IF node.type = NodeType_CONDITION
    THEN LET result == IF "conditionResult" \in DOMAIN out THEN out.conditionResult ELSE FALSE
             targetLabel == IF result = TRUE THEN "true" ELSE "false"
             nextEdge == FindIndex(es, LAMBDA e : e.source = node.id /\ LabelMatches(e, targetLabel))
         IN IF nextEdge # 0 THEN NodeById(ns, es[nextEdge].target) ELSE 0
    ELSE LET nextEdge == FindIndex(es, LAMBDA e : e.source = node.id)
         IN IF nextEdge # 0 THEN NodeById(ns, es[nextEdge].target) ELSE 0

\* variant: a cycle guard, an edge is followed only to a node later in the list
NextNode_Forward(ns, es, node, out) ==
  LET nextEdge == FindIndex(es, LAMBDA e : e.source = node.id)
      next == IF nextEdge # 0 THEN NodeById(ns, es[nextEdge].target) ELSE 0
  IN IF next > NodeById(ns, node.id) THEN next ELSE 0

\* variant: the current node is never left
NextNode_Stay(ns, es, node, out) == NodeById(ns, node.id)

\* variant: an edge whose target is not a node is passed over
NextNode_SkipDangling(ns, es, node, out) ==
  LET nextEdge == FindIndex(es, LAMBDA e : e.source = node.id /\ NodeById(ns, e.target) # 0)
  IN IF nextEdge # 0 THEN NodeById(ns, es[nextEdge].target) ELSE 0

\* step 3 of the loop: the node after `node`, 0 when the flow ends
NextNode(ns, es, node, out) ==
  IF node.type = NodeType_CONDITION
    THEN LET result == IF "conditionResult" \in DOMAIN out THEN out.conditionResult ELSE FALSE
             targetLabel == IF result = TRUE THEN "true" ELSE "false"
             labelled == FindIndex(es, LAMBDA e : e.source = node.id /\ LabelMatches(e, targetLabel))
             nextEdge == IF labelled # 0 THEN labelled
                         ELSE FindIndex(es, LAMBDA e : e.source = node.id)
         IN IF nextEdge # 0 THEN NodeById(ns, es[nextEdge].target) ELSE 0
    ELSE LET nextEdge == FindIndex(es, LAMBDA e : e.source = node.id)
         IN IF nextEdge # 0 THEN NodeById(ns, es[nextEdge].target) ELSE 0

\* --------------------------------------------------------------------- state
VARIABLES
  nodes,          \* parameter nodes: WorkflowNode[]
  edges,          \* parameter edges: WorkflowEdge[]
  initialInput,   \* parameter initialInput
  pc,             \* position of the run inside executeWorkflow / processNode
  now,            \* Date.now()
  startTime,      \* executeWorkflow: const startTime
  currentRunLog,  \* executeWorkflow: let currentRunLog
  currentNode,    \* executeWorkflow: let currentNode, an index into nodes (0: undefined)
  stepInput,      \* executeWorkflow: let stepInput
  stepOutput,     \* executeWorkflow: let stepOutput
  pendingStep,    \* executeWorkflow: const pendingStep of this iteration
  delay,          \* processNode: const delay
  pnStartTime,    \* processNode: const startTime
  logs,           \* processNode: const logs
  output,         \* processNode: let output
  attempt,        \* withRetry: let attempt
  thrown,         \* the error processNode threw
  result,         \* the value processNode returned
  delivered,      \* the arguments of the calls of onStepUpdate, in call order
  assigned,       \* history: the values assigned to currentRunLog, in order
  attemptsOf,     \* history: per step, the outcome of every doWork evaluation
  waits,          \* history: the wait(ms) calls of the current processNode call
  call,           \* a call of a function outside executeWorkflow: its arguments and returns
  runs,           \* AutomatorProvider: the state runs
  table,          \* the rows of the table 'runs' of the database, by id
  upserts,        \* the upsert requests of updateRun the database has not yet received
  events,         \* the payloads of the realtime channel the handler has not yet received
  updateRunCalls  \* history: the number of calls of updateRun

vars == << nodes, edges, initialInput, pc, now, startTime, currentRunLog, currentNode,
           stepInput, stepOutput, pendingStep, delay, pnStartTime, logs, output, attempt,
           thrown, result, delivered, assigned, attemptsOf, waits, call,
           runs, table, upserts, events, updateRunCalls >>

inputVars == << nodes, edges, initialInput >>
storeVars == << runs, table, upserts, events, updateRunCalls >>
processNodeVars == << delay, pnStartTime, logs, output, attempt, waits >>

\* no function outside executeWorkflow has been called
NoCall == [fn |-> "none", returned |-> << >>]

\* the provider has no run, and nothing is on its way to or from the database
StoreIdle ==
  /\ runs = << >> /\ table = << >> /\ upserts = << >> /\ events = << >>
  /\ updateRunCalls = 0

\* currentRunLog before the declaration at the top of executeWorkflow has run
NoRun == [status |-> "not-started", steps |-> << >>]

Init ==
  /\ \E g \in Graphs : nodes = g.nodes /\ edges = g.edges
  /\ initialInput \in InitialInputs
  /\ pc = "start"
  /\ now = 0
  /\ startTime = 0
  /\ currentRunLog = NoRun
  /\ currentNode = 0
  /\ stepInput = EmptyObj
  /\ stepOutput = EmptyObj
  /\ pendingStep = EmptyObj
  /\ delay = 0
  /\ pnStartTime = 0
  /\ logs = << >>
  /\ output = EmptyObj
  /\ attempt = 0
  /\ thrown = EmptyObj
  /\ result = EmptyObj
  /\ delivered = << >>
  /\ assigned = << >>
  /\ attemptsOf = << >>
  /\ waits = << >>
  /\ call = NoCall
  /\ StoreIdle

\* variant: the notification of a pending step is held back (batched with the next one)
UpdateAndNotify_Batched(run) ==
  /\ currentRunLog' = run
  /\ assigned' = Append(assigned, run)
  /\ delivered' = IF Len(run.steps) > 0 /\ run.steps[Len(run.steps)].status = "pending"
                    THEN delivered ELSE Append(delivered, run)

\* variant: a terminal snapshot is delivered twice
UpdateAndNotify_TerminalTwice(run) ==
  /\ currentRunLog' = run
  /\ assigned' = Append(assigned, run)
  /\ delivered' = IF run.status \in {"success", "failed"}
                    THEN Append(Append(delivered, run), run) ELSE Append(delivered, run)

\* currentRunLog = run; onStepUpdate(currentRunLog);
UpdateAndNotify(run) ==
  /\ currentRunLog' = run
  /\ assigned' = Append(assigned, run)
  /\ delivered' = Append(delivered, run)

\* variant: the completed step is appended, the pending one stays
ReplaceStep_Append(steps, stepId, step) == Append(steps, step)

\* variant: the pending step is not replaced
ReplaceStep_Keep(steps, stepId, step) == steps

\* steps.map(s => s.id === stepId ? step : s)
ReplaceStep(steps, stepId, step) ==
  [i \in DOMAIN steps |-> IF steps[i].id = stepId THEN step ELSE steps[i]]

\* variant: the spread operands swapped, earlier values win
MergeContext_FirstWins(context, out) == Spread(out, context)

\* stepInput = { ...stepInput, ...output }
MergeContext(context, out) == Spread(context, out)

\* variant: the same delay before every retry
BackoffDelay_Constant(n) == BASE_DELAY

\* BASE_DELAY * Math.pow(2, attempt - 1)
BackoffDelay(n) == BASE_DELAY * Pow2(n - 1)

\* while (attempt < MAX_RETRIES)
WhileCondition(n) == n < MAX_RETRIES

\* variant: the warning is not logged
PushWarning_Silent(lines, warning) == lines

\* logs.push(`... Retrying (${attempt}/${MAX_RETRIES}) in ${delay}ms...`)
PushWarning(lines, warning) == Append(lines, warning)

\* variant: off-by-one in the exhaustion test
RetriesExhausted_Late(n) == n > MAX_RETRIES

\* if (attempt >= MAX_RETRIES) throw error;
RetriesExhausted(n) == n >= MAX_RETRIES

\* variant: the catch branch falls through to the branching logic instead of returning
AfterStepFailed_FallThrough == "next"

\* where control goes after the catch branch of executeWorkflow: it returns
AfterStepFailed == "done"

\* the value the catch branch of withRetry rethrows: the error it just caught
Rethrown(caught, first) == caught

\* lines 208-233: create the run, first notification, pick the start node
Begin ==
  /\ pc = "start"
  /\ startTime' = now
  /\ UpdateAndNotify([id |-> now, workflowId |-> "wf-1", workflowName |-> "Workflow",
                      status |-> "running", startedAt |-> now, duration |-> <<0>>,
                      steps |-> << >>])
  /\ currentNode' = StartNode(nodes, edges)
  /\ stepInput' = initialInput
  /\ pc' = "loop"
  /\ UNCHANGED << call, storeVars, inputVars, now, stepOutput, pendingStep, processNodeVars, thrown, result,
                  attemptsOf >>

\* loop body, part 1: append the pending step and notify
MarkPending ==
  /\ pc = "loop"
  /\ currentNode # 0
  /\ Len(currentRunLog.steps) < MaxSteps
  /\ LET step == [id |-> now, nodeId |-> nodes[currentNode].id,
                  nodeLabel |-> nodes[currentNode].label, status |-> "pending",
                  startTime |-> now, input |-> stepInput, output |-> EmptyObj,
                  logs |-> << >>]
     IN /\ pendingStep' = step
        /\ UpdateAndNotify([currentRunLog EXCEPT !.steps = Append(@, step)])
  /\ stepOutput' = EmptyObj
  /\ attemptsOf' = Append(attemptsOf, << >>)
  /\ pc' = "processNode"
  /\ UNCHANGED << call, storeVars, inputVars, now, startTime, currentNode, stepInput, processNodeVars,
                  thrown, result >>

\* variant: the output starts empty and holds only what the node writes
InitialOutput_Empty(input) == EmptyObj

\* let output = { ...input }
InitialOutput(input) == Spread(EmptyObj, input)

\* processNode up to the call of withRetry
ProcessNodeStart ==
  /\ pc = "processNode"
  /\ \E d \in Delays(nodes[currentNode]) :
       /\ delay' = d
       /\ now' = now + (d * 3) \div 10
       /\ waits' = << (d * 3) \div 10 >>
  /\ pnStartTime' = now
  /\ logs' = << [ev |-> "Event: ActivityTaskScheduled", service |-> nodes[currentNode].service,
                 type |-> nodes[currentNode].type],
                [ev |-> "Event: ActivityTaskStarted"] >>
  /\ output' = InitialOutput(stepInput)
  /\ attempt' = 0
  /\ pc' = "withRetry"
  /\ UNCHANGED << call, storeVars, inputVars, startTime, currentRunLog, currentNode, stepInput, stepOutput,
                  pendingStep, thrown, result, delivered, assigned, attemptsOf >>

RecordAttempt(outcome) ==
  attemptsOf' = [attemptsOf EXCEPT ![Len(attemptsOf)] = Append(@, outcome)]

\* withRetry: fn() returns
DoWorkReturns ==
  /\ pc = "withRetry"
  /\ WhileCondition(attempt)
  /\ \E r \in doWork(nodes[currentNode], stepInput, output) :
       /\ r.ok
       /\ logs' = logs \o r.logs
       /\ output' = r.output
       /\ RecordAttempt([ok |-> TRUE])
  /\ pc' = "processed"
  /\ UNCHANGED << call, storeVars, inputVars, now, startTime, currentRunLog, currentNode, stepInput, stepOutput,
                  pendingStep, delay, pnStartTime, attempt, thrown, result, delivered,
                  assigned, waits >>

\* withRetry: fn() throws; warn, then back off and retry, or rethrow into processNode's
\* catch, which logs and rethrows into executeWorkflow
DoWorkThrows ==
  /\ pc = "withRetry"
  /\ WhileCondition(attempt)
  /\ \E r \in doWork(nodes[currentNode], stepInput, output) :
       /\ ~r.ok
       /\ LET n == attempt + 1
              ms == BackoffDelay(n)
              warned == PushWarning(logs \o r.logs,
                          [ev |-> "Retry warning", operationName |-> nodes[currentNode].label,
                           error |-> r.error.message, attempt |-> n, max |-> MAX_RETRIES,
                           delay |-> ms])
              first == LET fs == SelectSeq(Last(attemptsOf), LAMBDA a : ~a.ok)
                       IN IF Len(fs) > 0 THEN fs[1].error ELSE r.error
              failed(err) == Append(warned, [ev |-> "Activity Failed after retries",
                                             error |-> err.message])
          IN /\ attempt' = n
             /\ RecordAttempt([ok |-> FALSE, error |-> r.error])
             /\ IF RetriesExhausted(n)
                  THEN /\ thrown' = Rethrown(r.error, first)
                       /\ logs' = failed(thrown')
                       /\ pc' = "threw"
                       /\ UNCHANGED << now, waits >>
                  ELSE /\ now' = now + ms
                       /\ waits' = Append(waits, ms)
                       /\ IF WhileCondition(n)
                            THEN /\ logs' = warned
                                 /\ pc' = "withRetry"
                                 /\ UNCHANGED thrown
                            ELSE /\ thrown' = Error(<<"Unreachable">>)
                                 /\ logs' = failed(thrown')
                                 /\ pc' = "threw"
  /\ UNCHANGED << call, storeVars, inputVars, startTime, currentRunLog, currentNode, stepInput, stepOutput,
                  pendingStep, delay, pnStartTime, output, result, delivered, assigned >>

\* processNode after withRetry: the second wait, the closing log, the return value
ProcessNodeReturn ==
  /\ pc = "processed"
  /\ now' = now + (delay * 7) \div 10
  /\ waits' = Append(waits, (delay * 7) \div 10)
  /\ logs' = Append(logs, [ev |-> "Event: ActivityTaskCompleted"])
  /\ result' = [output |-> output, logs |-> logs', duration |-> ToFixed2(now' - pnStartTime)]
  /\ pc' = "completed"
  /\ UNCHANGED << call, storeVars, inputVars, startTime, currentRunLog, currentNode, stepInput, stepOutput,
                  pendingStep, delay, pnStartTime, output, attempt, thrown, delivered,
                  assigned, attemptsOf >>

\* loop body, part 2, try branch: replace the step by the completed one, merge, notify
StepSuccess ==
  /\ pc = "completed"
  /\ stepOutput' = result.output
  /\ LET completedStep == Spread(pendingStep,
                                 [status |-> "success", endTime |-> now,
                                  duration |-> result.duration, output |-> result.output,
                                  logs |-> result.logs])
     IN UpdateAndNotify([currentRunLog EXCEPT
                           !.steps = ReplaceStep(@, pendingStep.id, completedStep)])
  /\ stepInput' = MergeContext(stepInput, result.output)
  /\ pc' = "next"
  /\ UNCHANGED << call, storeVars, inputVars, now, startTime, currentNode, pendingStep, processNodeVars,
                  thrown, result, attemptsOf >>

\* loop body, part 2, catch branch: fail the step and the run, notify, return
StepFailed ==
  /\ pc = "threw"
  /\ LET failedStep == Spread(pendingStep,
                              [status |-> "failed", endTime |-> now,
                               logs |-> << [ev |-> "Error: Execution failed"],
                                           [ev |-> "Details", error |-> thrown] >>])
     IN UpdateAndNotify([currentRunLog EXCEPT
                           !.status = "failed",
                           !.duration = ToFixed1(now - startTime),
                           !.steps = ReplaceStep(@, pendingStep.id, failedStep)])
  /\ pc' = AfterStepFailed
  /\ UNCHANGED << call, storeVars, inputVars, now, startTime, currentNode, stepInput, stepOutput, pendingStep,
                  processNodeVars, thrown, result, attemptsOf >>

\* loop body, part 3: branching logic
FindNextNode ==
  /\ pc = "next"
  /\ currentNode' = NextNode(nodes, edges, nodes[currentNode], stepOutput)
  /\ pc' = "loop"
  /\ UNCHANGED << call, storeVars, inputVars, now, startTime, currentRunLog, stepInput, stepOutput, pendingStep,
                  processNodeVars, thrown, result, delivered, assigned, attemptsOf >>

\* after the loop: complete the run, last notification, return
CompleteRun ==
  /\ pc = "loop"
  /\ currentNode = 0
  /\ UpdateAndNotify([currentRunLog EXCEPT !.status = "success",
                                            !.duration = ToFixed1(now - startTime)])
  /\ pc' = "done"
  /\ UNCHANGED << call, storeVars, inputVars, now, startTime, currentNode, stepInput, stepOutput, pendingStep,
                  processNodeVars, thrown, result, attemptsOf >>

Next ==
  \/ Begin
  \/ MarkPending
  \/ ProcessNodeStart
  \/ DoWorkReturns
  \/ DoWorkThrows
  \/ ProcessNodeReturn
  \/ StepSuccess
  \/ StepFailed
  \/ FindNextNode
  \/ CompleteRun

Spec == Init /\ [][Next]_vars

\* the run is one async function: the event loop resumes it after every await, and every
\* awaited wait(ms) and doWork settles
SpecLive == Spec /\ WF_vars(Next)

TypeOK ==
  /\ pc \in {"start", "loop", "processNode", "withRetry", "processed", "completed", "threw",
             "next", "done"}
  /\ currentNode \in 0..Len(nodes)
  /\ attempt \in 0..MAX_RETRIES
  /\ Len(attemptsOf) = Len(currentRunLog.steps)

\* ------------------------------------------------------------ graphAnalyzer
\* the ids of a node list
IdsOf(ns) == { ns[i].id : i \in 1..Len(ns) }

\* hasCycle: const adj, one list per node id, filled from the edges whose source has one
Adj(ns, es) ==
  [id \in IdsOf(ns) |->
     LET out == SelectSeq(es, LAMBDA e : e.source = id)
     IN [i \in 1..Len(out) |-> out[i].target]]

\* variant: a node stays on the recursion stack after its neighbours are done
RecStackDelete_Keep(recStack, nodeId) == recStack

\* recStack.delete(nodeId)
RecStackDelete(recStack, nodeId) == recStack \ {nodeId}

RECURSIVE dfs(_, _, _), dfsNeighbors(_, _, _, _), hasCycleFrom(_, _, _, _)
\* hasCycle: const dfs; st holds the sets visited and recStack, ret the returned value
dfs(adj, nodeId, st) ==
  IF nodeId \in st.recStack THEN [st EXCEPT !.ret = TRUE]
  ELSE IF nodeId \in st.visited THEN [st EXCEPT !.ret = FALSE]
  ELSE LET entered == [ret |-> FALSE,
                       visited |-> st.visited \cup {nodeId},
                       recStack |-> st.recStack \cup {nodeId}]
           neighbors == IF nodeId \in DOMAIN adj THEN adj[nodeId] ELSE << >>
           after == dfsNeighbors(adj, neighbors, 1, entered)
       IN IF after.ret THEN after
                       ELSE [after EXCEPT !.recStack = RecStackDelete(@, nodeId)]

\* dfs: for (const neighbor of neighbors), from the i-th neighbour on
dfsNeighbors(adj, neighbors, i, st) ==
  IF i > Len(neighbors) THEN [st EXCEPT !.ret = FALSE]
  ELSE LET r == dfs(adj, neighbors[i], st)
       IN IF r.ret THEN r ELSE dfsNeighbors(adj, neighbors, i + 1, r)

\* hasCycle: for (const node of nodes), from the i-th node on
hasCycleFrom(adj, ns, i, st) ==
  IF i > Len(ns) THEN FALSE
  ELSE LET r == dfs(adj, ns[i].id, st)
       IN IF r.ret THEN TRUE ELSE hasCycleFrom(adj, ns, i + 1, r)

hasCycle(ns, es) ==
  hasCycleFrom(Adj(ns, es), ns, 1, [ret |-> FALSE, visited |-> {}, recStack |-> {}])

RECURSIVE pushSources(_, _, _, _), upstreamLoop(_, _, _, _)
\* getUpstreamNodes: for (const edge of incomingEdges), from the i-th edge on
pushSources(incomingEdges, i, upstream, queue) ==
  IF i > Len(incomingEdges) THEN [upstream |-> upstream, queue |-> queue]
  ELSE IF incomingEdges[i].source \notin upstream
         THEN pushSources(incomingEdges, i + 1, upstream \cup {incomingEdges[i].source},
                          Append(queue, incomingEdges[i].source))
         ELSE pushSources(incomingEdges, i + 1, upstream, queue)

\* getUpstreamNodes: while (queue.length > 0); returns the set upstream
upstreamLoop(es, queue, visited, upstream) ==
  IF queue = << >> THEN upstream
  ELSE LET currentId == Head(queue)
       IN IF currentId \in visited
            THEN upstreamLoop(es, Tail(queue), visited, upstream)
            ELSE LET incomingEdges == SelectSeq(es, LAMBDA e : e.target = currentId)
                     r == pushSources(incomingEdges, 1, upstream, Tail(queue))
                 IN upstreamLoop(es, r.queue, visited \cup {currentId}, r.upstream)

getUpstreamNodes(ns, es, targetNodeId) ==
  LET upstream == upstreamLoop(es, <<targetNodeId>>, {}, {})
  IN SelectSeq(ns, LAMBDA n : n.id \in upstream)

RECURSIVE ConfigErrors(_, _, _)
\* validateWorkflow, check 4: nodes.forEach, from the i-th node on
ConfigErrors(ns, es, i) ==
  IF i > Len(ns) THEN << >>
  ELSE LET node == ns[i]
           service == IF node.service = ""
                        THEN << [msg |-> "Node is missing a service definition.",
                                 label |-> node.label] >>
                        ELSE << >>
           outgoing == SelectSeq(es, LAMBDA e : e.source = node.id)
           paths == IF node.type = NodeType_CONDITION /\ Len(outgoing) = 0
                      THEN << [msg |-> "Condition has no outgoing paths.",
                               label |-> node.label] >>
                      ELSE << >>
       IN service \o paths \o ConfigErrors(ns, es, i + 1)

\* validateWorkflow: const errors when the function returns
ValidationErrors(ns, es) ==
  LET triggers == SelectSeq(ns, LAMBDA n : n.type = NodeType_TRIGGER)
      nonTriggers == SelectSeq(ns, LAMBDA n : n.type # NodeType_TRIGGER)
      orphans == SelectSeq(nonTriggers,
                           LAMBDA n : ~(\E i \in 1..Len(es) : es[i].target = n.id))
  IN (IF Len(triggers) = 0
        THEN << [msg |-> "Workflow must have at least one Trigger node."] >> ELSE << >>)
     \o [i \in 1..Len(orphans) |->
           [msg |-> "Node is disconnected (no incoming connection).",
            label |-> orphans[i].label]]
     \o (IF hasCycle(ns, es)
           THEN << [msg |-> "Workflow contains an infinite loop (cycle). Please remove the cycle."] >>
           ELSE << >>)
     \o ConfigErrors(ns, es, 1)

\* variant: validation stops at the first violation
validateWorkflow_FailFast(ns, es) ==
  LET all == ValidationErrors(ns, es)
      errors == IF Len(all) = 0 THEN << >> ELSE << all[1] >>
  IN [isValid |-> Len(errors) = 0, errors |-> errors]

validateWorkflow(ns, es) ==
  LET errors == ValidationErrors(ns, es)
  IN [isValid |-> Len(errors) = 0, errors |-> errors]

\* bounds of the graphs handed to the analyzer
MaxEdges == 3
MaxValidateEdges == 2

\* node ids; an edge may name an id that the node list does not hold
AnalyzerIds == << "A", "B", "C" >>
AnalyzerLabel == [A |-> "Node A", B |-> "Node B", C |-> "Node C"]
AnalyzerKinds ==
  { [type |-> NodeType_TRIGGER, service |-> "webhook"],
    [type |-> NodeType_ACTION, service |-> "slack"],
    [type |-> NodeType_ACTION, service |-> ""],
    [type |-> NodeType_CONDITION, service |-> "system"],
    [type |-> NodeType_CONDITION, service |-> ""] }
AnalyzerNodeLists ==
  UNION { { [i \in 1..k |-> WorkflowNode(AnalyzerIds[i], kinds[i].type, kinds[i].service,
                                         AnalyzerLabel[AnalyzerIds[i]], EmptyObj)]
            : kinds \in [1..k -> AnalyzerKinds] }
          : k \in 0..Len(AnalyzerIds) }
PlainNodeLists ==
  { [i \in 1..k |-> WorkflowNode(AnalyzerIds[i], NodeType_ACTION, "slack",
                                 AnalyzerLabel[AnalyzerIds[i]], EmptyObj)]
    : k \in 0..Len(AnalyzerIds) }
AnalyzerEdges ==
  { WorkflowEdge("e", AnalyzerIds[i], AnalyzerIds[j], Undefined)
    : i \in 1..Len(AnalyzerIds), j \in 1..Len(AnalyzerIds) }
EdgeLists(n) == UNION { [1..k -> AnalyzerEdges] : k \in 0..n }
\* the analyzer is about to be called with nodes ns and edges es
AnalyzerInput(ns, es) == [fn |-> "none", nodes |-> ns, edges |-> es, returned |-> << >>]

engineVars == << nodes, edges, initialInput, pc, now, startTime, currentRunLog, currentNode,
                 stepInput, stepOutput, pendingStep, delay, pnStartTime, logs, output,
                 attempt, thrown, result, delivered, assigned, attemptsOf, waits >>

\* executeWorkflow is not running
EngineIdle ==
  /\ nodes = << >> /\ edges = << >> /\ initialInput = [trigger |-> "manual_execution"]
  /\ pc = "start" /\ now = 0 /\ startTime = 0 /\ currentRunLog = NoRun /\ currentNode = 0
  /\ stepInput = EmptyObj /\ stepOutput = EmptyObj /\ pendingStep = EmptyObj
  /\ delay = 0 /\ pnStartTime = 0 /\ logs = << >> /\ output = EmptyObj /\ attempt = 0
  /\ thrown = EmptyObj /\ result = EmptyObj /\ delivered = << >> /\ assigned = << >>
  /\ attemptsOf = << >> /\ waits = << >>

InitAnalyzer ==
  /\ EngineIdle
  /\ StoreIdle
  /\ \/ \E ns \in PlainNodeLists : \E es \in EdgeLists(MaxEdges) :
          call = AnalyzerInput(ns, es)
     \/ \E ns \in AnalyzerNodeLists : \E es \in EdgeLists(MaxValidateEdges) :
          call = AnalyzerInput(ns, es)

CallHasCycle ==
  /\ call.fn = "none"
  /\ call' = [call EXCEPT !.fn = "hasCycle",
                          !.returned = << hasCycle(call.nodes, call.edges) >>]
  /\ UNCHANGED << engineVars, storeVars >>

CallGetUpstreamNodes ==
  /\ call.fn = "none"
  /\ \E i \in 1..Len(AnalyzerIds) :
       call' = [fn |-> "getUpstreamNodes", nodes |-> call.nodes, edges |-> call.edges,
                targetNodeId |-> AnalyzerIds[i],
                returned |-> << getUpstreamNodes(call.nodes, call.edges, AnalyzerIds[i]) >>]
  /\ UNCHANGED << engineVars, storeVars >>

CallValidateWorkflow ==
  /\ call.fn = "none"
  /\ call' = [call EXCEPT !.fn = "validateWorkflow",
                          !.returned = << validateWorkflow(call.nodes, call.edges) >>]
  /\ UNCHANGED << engineVars, storeVars >>

NextAnalyzer ==
  \/ CallHasCycle
  \/ CallGetUpstreamNodes
  \/ CallValidateWorkflow

SpecAnalyzer == InitAnalyzer /\ [][NextAnalyzer]_vars

\* ------------------------------------------- resolveConfig, character by character
\* A string is the sequence of its characters.  A config value carries its JS type:
\* [type |-> "string", chars], [type |-> "array", items], [type |-> "object", fields],
\* [type |-> "number", value].
StringValue(chars) == [type |-> "string", chars |-> chars]
ArrayValue(items) == [type |-> "array", items |-> items]
ObjectValue(fields) == [type |-> "object", fields |-> fields]
NumberValue(n) == [type |-> "number", value |-> n]

\* String.prototype.trim
RECURSIVE TrimStart(_), TrimEnd(_)
TrimStart(chars) ==
  IF chars # << >> /\ Head(chars) = " " THEN TrimStart(Tail(chars)) ELSE chars
TrimEnd(chars) ==
  IF chars # << >> /\ chars[Len(chars)] = " "
    THEN TrimEnd(SubSeq(chars, 1, Len(chars) - 1)) ELSE chars
Trim(chars) == TrimEnd(TrimStart(chars))

\* [^}]+ from position i: the length of the longest run of characters other than "}"
RECURSIVE RunLength(_, _)
RunLength(chars, i) ==
  IF i <= Len(chars) /\ chars[i] # "}" THEN 1 + RunLength(chars, i + 1) ELSE 0

\* /\{\{([^}]+)\}\}/ at position i: the length of the captured key, 0 when there is no
\* match (the run is followed by "}", so no shorter run can match either)
MatchAt(chars, i) ==
  IF i + 1 <= Len(chars) /\ chars[i] = "{" /\ chars[i + 1] = "{"
    THEN LET n == RunLength(chars, i + 2)
         IN IF /\ n >= 1
               /\ i + n + 3 <= Len(chars)
               /\ chars[i + n + 2] = "}"
               /\ chars[i + n + 3] = "}"
              THEN n ELSE 0
    ELSE 0

\* variant: the context is looked up with the key as captured, not trimmed
Replacement_LookupUntrimmed(key, context) ==
  IF key \in DOMAIN context
    THEN context[key]
    ELSE << "{", "{" >> \o Trim(key) \o << "}", "}" >>

\* the replacer callback (_, key) => ...
Replacement(key, context) ==
  LET cleanKey == Trim(key)
  IN IF cleanKey \in DOMAIN context
       THEN context[cleanKey]
       ELSE << "{", "{" >> \o cleanKey \o << "}", "}" >>

\* config.replace(regex with flag g, replacer), from position i on
RECURSIVE ReplaceFrom(_, _, _)
ReplaceFrom(chars, i, context) ==
  IF i > Len(chars) THEN << >>
  ELSE LET n == MatchAt(chars, i)
       IN IF n = 0
            THEN << chars[i] >> \o ReplaceFrom(chars, i + 1, context)
            ELSE Replacement(SubSeq(chars, i + 2, i + n + 1), context)
                 \o ReplaceFrom(chars, i + n + 4, context)

\* resolveConfig on a value of any type
RECURSIVE resolveConfigValue(_, _)
resolveConfigValue(config, context) ==
  CASE config.type = "string" -> StringValue(ReplaceFrom(config.chars, 1, context))
    [] config.type = "array" ->
         ArrayValue([i \in 1..Len(config.items) |->
                       resolveConfigValue(config.items[i], context)])
    [] config.type = "object" ->
         ObjectValue([key \in DOMAIN config.fields |->
                        resolveConfigValue(config.fields[key], context)])
    [] OTHER -> config

\* bound of the templates: the number of segments a template string is made of
MaxSegments == 4

Segments ==
  { << "{", "{" >>, << "}", "}" >>, << "{" >>, << "}" >>, << " " >>, << "a" >>,
    << "{", "{", "a", "}", "}" >> }
RECURSIVE Flatten(_)
Flatten(segs) == IF segs = << >> THEN << >> ELSE Head(segs) \o Flatten(Tail(segs))
Templates(n) == UNION { { Flatten(segs) : segs \in [1..k -> Segments] } : k \in 0..n }

\* contexts: the values are what String(value) gives
Contexts ==
  { [k \in {} |-> << >>],
    [k \in { << "a" >> } |-> << "X" >>],
    [k \in { << "a" >> } |-> << "{" >>],
    [k \in { << "a" >> } |-> << "{", "{", "a", "}", "}" >>] }

\* the configs handed to resolveConfig: a string, an array, an object holding both
ConfigsOf(chars) ==
  { StringValue(chars),
    ArrayValue(<< StringValue(chars), NumberValue(7) >>),
    ObjectValue([text |-> StringValue(chars),
                 list |-> ArrayValue(<< StringValue(chars) >>)]) }

InitTemplate ==
  /\ EngineIdle
  /\ StoreIdle
  /\ \E chars \in Templates(MaxSegments) : \E config \in ConfigsOf(chars) : \E context \in Contexts :
       call = [fn |-> "none", config |-> config, context |-> context, returned |-> << >>]

CallResolveConfig ==
  /\ call.fn = "none"
  /\ call' = [call EXCEPT !.fn = "resolveConfig",
                          !.returned = << resolveConfigValue(call.config, call.context) >>]
  /\ UNCHANGED << engineVars, storeVars >>

\* resolveConfig applied to what the first call returned
CallResolveConfigAgain ==
  /\ call.fn = "resolveConfig"
  /\ Len(call.returned) = 1
  /\ call' = [call EXCEPT !.returned =
                Append(@, resolveConfigValue(call.returned[1], call.context))]
  /\ UNCHANGED << engineVars, storeVars >>

NextTemplate ==
  \/ CallResolveConfig
  \/ CallResolveConfigAgain

SpecTemplate == InitTemplate /\ [][NextTemplate]_vars

\* ------------------------------------------------------- AutomatorProvider
\* the number of calls of updateRun in a behaviour
MaxUpdates == 3

RunIds == {"run-1", "run-2"}
RunStatuses == {"running", "success", "failed"}

\* a snapshot the observer of handleExecuteRun hands to updateRun
RunLog(id, status) ==
  [id |-> id, workflowId |-> "wf-1", workflowName |-> "My Flow", status |-> status,
   startedAt |-> "t0",
   duration |-> IF status = "running" THEN Undefined ELSE "1.0s",
   steps |-> IF status = "running" THEN << >> ELSE << "step-1" >>]

\* the workflows the realtime handler sees: the state of the render that ran the effect
SubscribedWorkflows == << >>

\* mapRunFromDB
mapRunFromDB(row, currentWorkflows) ==
  LET wf == FindIndex(currentWorkflows, LAMBDA w : w.id = row.workflow_id)
  IN [id |-> row.id,
      workflowId |-> row.workflow_id,
      workflowName |-> IF wf # 0 THEN currentWorkflows[wf].name ELSE "Unknown Workflow",
      status |-> row.status,
      startedAt |-> row.started_at,
      duration |-> IF row.duration # Undefined THEN row.duration ELSE "0s",
      steps |-> IF row.logs # Undefined THEN row.logs ELSE << >>]

\* updateRun: the updater given to setRuns
InsertOrReplace(prev, run) ==
  LET index == FindIndex(prev, LAMBDA r : r.id = run.id)
  IN IF index = 0 THEN << run >> \o prev
     ELSE [prev EXCEPT ![index] = run]

\* updateRun: the columns given to upsert
UpsertRow(run) ==
  [id |-> run.id, workflow_id |-> run.workflowId, status |-> run.status, logs |-> run.steps,
   duration |-> run.duration,
   completed_at |-> IF run.status # "running" THEN "completed" ELSE Undefined]

RemoveAt(seq, i) == SubSeq(seq, 1, i - 1) \o SubSeq(seq, i + 1, Len(seq))

\* the realtime handler, eventType INSERT: the updater given to setRuns
OnInsert(prev, newRun) == << newRun >> \o prev

\* the realtime handler, eventType UPDATE: the updater given to setRuns
OnUpdate(prev, updatedRun) ==
  [i \in 1..Len(prev) |-> IF prev[i].id = updatedRun.id THEN updatedRun ELSE prev[i]]

InitStore ==
  /\ EngineIdle
  /\ call = NoCall
  /\ StoreIdle

\* updateRun(run), called by the observer of handleExecuteRun: the optimistic update of
\* runs, then the upsert is sent and not awaited by the caller
UpdateRun ==
  /\ updateRunCalls < MaxUpdates
  /\ \E id \in RunIds : \E status \in RunStatuses :
       LET run == RunLog(id, status)
       IN /\ runs' = InsertOrReplace(runs, run)
          /\ upserts' = Append(upserts, UpsertRow(run))
  /\ updateRunCalls' = updateRunCalls + 1
  /\ UNCHANGED << engineVars, call, table, events >>

\* the database receives one of the upserts (requests may overtake each other): the row
\* is inserted when the table has none of this id and updated otherwise, and the change is
\* published on the realtime channel
ServerUpsert ==
  /\ \E i \in 1..Len(upserts) :
       LET row == upserts[i]
           known == row.id \in DOMAIN table
           stored == IF known THEN [table[row.id] EXCEPT !.status = row.status,
                                                         !.logs = row.logs,
                                                         !.duration = row.duration,
                                                         !.completed_at = row.completed_at]
                     ELSE [id |-> row.id, workflow_id |-> row.workflow_id,
                           status |-> row.status, logs |-> row.logs,
                           duration |-> row.duration, completed_at |-> row.completed_at,
                           started_at |-> "t1"]
       IN /\ table' = [k \in DOMAIN table \cup {row.id} |-> IF k = row.id THEN stored ELSE table[k]]
          /\ events' = Append(events, [eventType |-> IF known THEN "UPDATE" ELSE "INSERT",
                                       new |-> stored])
          /\ upserts' = RemoveAt(upserts, i)
  /\ UNCHANGED << engineVars, call, runs, updateRunCalls >>

\* the subscription's callback receives a payload with eventType INSERT
RealtimeInsert ==
  /\ Len(events) > 0
  /\ Head(events).eventType = "INSERT"
  /\ runs' = OnInsert(runs, mapRunFromDB(Head(events).new, SubscribedWorkflows))
  /\ events' = Tail(events)
  /\ UNCHANGED << engineVars, call, table, upserts, updateRunCalls >>

\* the subscription's callback receives a payload with eventType UPDATE
RealtimeUpdate ==
  /\ Len(events) > 0
  /\ Head(events).eventType = "UPDATE"
  /\ runs' = OnUpdate(runs, mapRunFromDB(Head(events).new, SubscribedWorkflows))
  /\ events' = Tail(events)
  /\ UNCHANGED << engineVars, call, table, upserts, updateRunCalls >>

NextStore ==
  \/ UpdateRun
  \/ ServerUpsert
  \/ RealtimeInsert
  \/ RealtimeUpdate

SpecStore == InitStore /\ [][NextStore]_vars

\* ================================================================== claims
Terminal == {"success", "failed"}
Steps == currentRunLog.steps
NodeOfStep(k) == nodes[NodeById(nodes, Steps[k].nodeId)]
Failed(a) == ~a.ok
AllFailed(as) == Len(as) > 0 /\ \A i \in 1..Len(as) : ~as[i].ok
RetryWarnings(lines) == SelectSeq(lines, LAMBDA l : l.ev = "Retry warning")

\* the status history h of a run: starts 'running', and once terminal never changes
\* status or steps again
StatusHistoryOK(h) ==
  /\ Len(h) > 0 => h[1].status = "running" /\ h[1].steps = << >>
  /\ \A i \in 1..Len(h) : h[i].status \in {"running"} \cup Terminal
  /\ \A i \in 1..Len(h) : \A j \in (i + 1)..Len(h) :
       h[i].status \in Terminal => h[j].status = h[i].status /\ h[j].steps = h[i].steps

\* C1: the run status starts as 'running' and changes at most once, to 'success' or
\* 'failed'; after a snapshot with a terminal status no later snapshot of the run has
\* a different status or a different steps sequence.
C1_StatusChangesOnceTerminally ==
  /\ StatusHistoryOK(assigned)
  /\ StatusHistoryOK(delivered)
  /\ currentRunLog.status \in Terminal => pc = "done"

C1_Witness ==
  /\ pc = "done"
  /\ currentRunLog.status = "failed"
  /\ Len(Steps) >= 2
  /\ \E i \in 1..Len(edges) : edges[i].source = Last(Steps).nodeId

\* C2: when processNode throws for the current node, the step of that node is marked
\* 'failed', the run status is 'failed', the observer has been notified of it and
\* executeWorkflow has returned: the failed step is the last step, nothing follows it,
\* and its output (empty) was not merged into the context.
C2_FailureStopsTheRun ==
  /\ (thrown # EmptyObj /\ pc # "threw") =>
       /\ pc = "done"
       /\ currentRunLog.status = "failed"
       /\ Last(Steps).status = "failed"
       /\ Last(Steps).nodeId = nodes[currentNode].id
       /\ Last(delivered) = currentRunLog
  /\ \A k \in 1..Len(Steps) :
       Steps[k].status = "failed" =>
         /\ k = Len(Steps)
         /\ pc = "done"
         /\ Steps[k].output = EmptyObj
         /\ stepInput = Steps[k].input

C2_Witness ==
  /\ pc = "done"
  /\ Len(Steps) = 2
  /\ Last(Steps).status = "failed"
  /\ Len(nodes) = 3
  /\ \E i \in 1..Len(edges) :
       edges[i].source = Last(Steps).nodeId /\ NodeById(nodes, edges[i].target) # 0

\* C3: a node whose work function fails on every attempt is attempted exactly
\* MAX_RETRIES = 3 times, never a 4th; the error of the last attempt is the one
\* rethrown, the run ends 'failed', and the failed step's logs carry that error.
C3_RetryExhaustion ==
  /\ \A k \in 1..Len(Steps) : Len(attemptsOf[k]) <= MAX_RETRIES
  /\ \A k \in 1..Len(Steps) :
       (AllFailed(attemptsOf[k]) /\ pc \notin {"withRetry", "threw"}) =>
         /\ Len(attemptsOf[k]) = MAX_RETRIES
         /\ thrown = attemptsOf[k][MAX_RETRIES].error
         /\ pc = "done"
         /\ currentRunLog.status = "failed"
         /\ Steps[k].status = "failed"
         /\ \E i \in 1..Len(Steps[k].logs) :
              /\ Steps[k].logs[i].ev = "Details"
              /\ Steps[k].logs[i].error = attemptsOf[k][MAX_RETRIES].error

C3_Witness ==
  /\ pc = "done"
  /\ Len(Steps) > 0
  /\ AllFailed(Last(attemptsOf))
  /\ Len(Last(attemptsOf)) = 3
  /\ Last(attemptsOf)[1].error # Last(attemptsOf)[3].error

FailsTwiceThenSucceeds(as) ==
  Len(as) = 3 /\ ~as[1].ok /\ ~as[2].ok /\ as[3].ok

\* C4: a node whose work function fails on the first two attempts and succeeds on the
\* third yields a 'success' step whose logs contain exactly 2 retry-warning lines, and
\* the run goes on with the successor of that node.
C4_RetryThenSuccess ==
  \A k \in 1..Len(Steps) :
    (FailsTwiceThenSucceeds(attemptsOf[k]) /\ (k < Len(Steps) \/ pc \in {"next", "loop", "done"})) =>
      LET successor == NextNode(nodes, edges, NodeOfStep(k), Steps[k].output)
      IN /\ Steps[k].status = "success"
         /\ Len(RetryWarnings(Steps[k].logs)) = 2
         /\ k < Len(Steps) => successor # 0 /\ Steps[k + 1].nodeId = nodes[successor].id
         /\ (k = Len(Steps) /\ pc = "loop") => currentNode = successor
         /\ (k = Len(Steps) /\ pc = "done") =>
              currentRunLog.status = "success" /\ successor = 0

C4_Witness ==
  \E k \in 1..Len(Steps) :
    /\ FailsTwiceThenSucceeds(attemptsOf[k])
    /\ k < Len(Steps)
    /\ Steps[k + 1].status = "success"

\* C5 (as claimed): an error thrown by the user code of a SCRIPT node is never
\* retried; the script is evaluated exactly once for that step, with no backoff wait
\* and no retry-warning line.
C5_ScriptErrorNotRetried ==
  \A k \in 1..Len(Steps) :
    (NodeOfStep(k).type = NodeType_SCRIPT /\ Len(attemptsOf[k]) > 0 /\ ~attemptsOf[k][1].ok) =>
      /\ Len(attemptsOf[k]) = 1
      /\ k = Len(Steps) => \A i \in 1..Len(waits) : waits[i] # BackoffDelay(1)

NodeIds(steps) == [k \in 1..Len(steps) |-> steps[k].nodeId]
EdgeSet == {<<edges[i].source, edges[i].target, edges[i].label>> : i \in 1..Len(edges)}
\* first edge out of node id carrying exactly this label, 0 if none
LabelledEdge(id, label) == FindIndex(edges, LAMBDA e : e.source = id /\ e.label = label)
TotalValueOver100(n) ==
  /\ n.type = NodeType_CONDITION
  /\ n.config = [variable |-> "totalValue", operator |-> ">", threshold |-> 100]
\* the node executed after step k, as an id; Undefined while not yet decided or none
ExecutedAfter(k) ==
  IF k < Len(Steps) THEN Steps[k + 1].nodeId
  ELSE IF pc = "loop" /\ currentNode # 0 THEN nodes[currentNode].id
  ELSE Undefined
DecidedAfter(k) == k < Len(Steps) \/ pc \in {"loop", "done"}

\* C6 (as claimed): after a successful CONDITION node `totalValue > 100` with edges
\* labelled 'true' to X and 'false' to Y, the next node is X when the context has
\* totalValue = 150 and Y when it has 50; in general the edge labelled 'true' is
\* followed when conditionResult is true and the one labelled 'false' otherwise,
\* wherever these edges stand in the edge list.
C6_ConditionBranchSelection ==
  \A k \in 1..Len(Steps) :
    LET n == NodeOfStep(k)
        t == LabelledEdge(n.id, "true")
        f == LabelledEdge(n.id, "false")
        in == Steps[k].input
        out == Steps[k].output
    IN (n.type = NodeType_CONDITION /\ Steps[k].status = "success" /\ DecidedAfter(k)
        /\ t # 0 /\ f # 0) =>
         /\ (TotalValueOver100(n) /\ "totalValue" \in DOMAIN in /\ in.totalValue = 150) =>
              ExecutedAfter(k) = edges[t].target
         /\ (TotalValueOver100(n) /\ "totalValue" \in DOMAIN in /\ in.totalValue = 50) =>
              ExecutedAfter(k) = edges[f].target
         /\ ExecutedAfter(k) =
              IF "conditionResult" \in DOMAIN out /\ out.conditionResult = TRUE
                THEN edges[t].target ELSE edges[f].target

\* Trigger(A) -> Condition(B: totalValue > 100) -> {'true': Action C, 'false': Action D}
EndToEndGraph ==
  /\ Len(nodes) = 4
  /\ nodes[1].id = "A" /\ nodes[1].type = NodeType_TRIGGER
  /\ nodes[2].id = "B" /\ TotalValueOver100(nodes[2])
  /\ nodes[3].id = "C" /\ nodes[3].type = NodeType_ACTION
  /\ nodes[4].id = "D" /\ nodes[4].type = NodeType_ACTION
  /\ Len(edges) = 3
  /\ EdgeSet = { <<"A", "B", Undefined>>, <<"B", "C", "true">>, <<"B", "D", "false">> }

EndToEndRunDone ==
  /\ EndToEndGraph
  /\ initialInput = [totalValue |-> 150]
  /\ pc = "done"
  /\ thrown = EmptyObj

Sources == {edges[i].source : i \in 1..Len(edges)}
Targets == {edges[i].target : i \in 1..Len(edges)}
\* Trigger -> Action -> Action: three nodes with distinct ids, no CONDITION, two edges
\* that string them into one path starting at the trigger
LinearChain ==
  /\ Len(nodes) = 3 /\ Len(edges) = 2
  /\ Cardinality({nodes[i].id : i \in 1..3}) = 3
  /\ \E t \in 1..3 : /\ nodes[t].type = NodeType_TRIGGER
                     /\ nodes[t].id \notin Targets
                     /\ \A i \in (1..3) \ {t} : nodes[i].type = NodeType_ACTION
  /\ \E i, j \in 1..2 : i # j /\ edges[i].target = edges[j].source
                              /\ edges[i].source # edges[j].target
                              /\ edges[i].source # edges[i].target
                              /\ edges[j].source # edges[j].target
  /\ Sources \cup Targets = {nodes[i].id : i \in 1..3}

\* the node ids of a linear chain in edge order, starting at the trigger
ChainOrder ==
  LET first == CHOOSE e \in 1..2 : edges[e].source \notin Targets
      second == CHOOSE e \in 1..2 : e # first
  IN << edges[first].source, edges[first].target, edges[second].target >>

IsPrefix(a, b) == Len(a) <= Len(b) /\ SubSeq(b, 1, Len(a)) = a

\* C8: on a linear chain Trigger -> Action -> Action without CONDITION node the steps
\* are recorded in edge order starting at the trigger, and when no node fails the run
\* ends 'success' with exactly one step per node.
C8_LinearChain ==
  LinearChain =>
    /\ IsPrefix(NodeIds(Steps), ChainOrder)
    /\ (pc = "done" /\ thrown = EmptyObj) =>
         /\ currentRunLog.status = "success"
         /\ NodeIds(Steps) = ChainOrder
         /\ \A k \in 1..Len(Steps) : Steps[k].status = "success"

C8_Witness ==
  /\ LinearChain
  /\ pc = "done"
  /\ currentRunLog.status = "success"
  /\ nodes[1].type # NodeType_TRIGGER
  /\ Len(Steps) = 3

\* the initial input merged with the outputs of steps 1..k, in order
RECURSIVE MergedUpTo(_)
MergedUpTo(k) == IF k = 0 THEN initialInput ELSE Spread(MergedUpTo(k - 1), Steps[k].output)

ScriptCode(n) == IF "code" \in DOMAIN n.config THEN n.config.code ELSE Undefined

\* C9: the context is merged forward last-write-wins: the input recorded on step k is
\* the initial input merged with the outputs of steps 1..k-1 in order, every key a
\* successful step wrote has that step's value right after it, and a chain of two
\* scripts returning {a:1} then {a:2,b:3} ends with a = 2 and b = 3 in the context.
C9_ContextMergeLastWriteWins ==
  /\ \A k \in 1..Len(Steps) : Steps[k].input = MergedUpTo(k - 1)
  /\ pc \in {"next", "loop", "done"} => stepInput = MergedUpTo(Len(Steps))
  /\ \A k \in 1..Len(Steps) :
       (Steps[k].status = "success" /\ k < Len(Steps)) =>
         \A key \in DOMAIN Steps[k].output :
           key \in DOMAIN Steps[k + 1].input /\ Steps[k + 1].input[key] = Steps[k].output[key]
  /\ \A k \in 1..(Len(Steps) - 1) :
       (/\ NodeOfStep(k).type = NodeType_SCRIPT /\ ScriptCode(NodeOfStep(k)) = "return {a:1}"
        /\ NodeOfStep(k + 1).type = NodeType_SCRIPT
        /\ ScriptCode(NodeOfStep(k + 1)) = "return {a:2,b:3}"
        /\ Steps[k + 1].status = "success" /\ pc \in {"next", "loop", "done"}
        /\ k + 1 = Len(Steps)) =>
         stepInput.a = 2 /\ stepInput.b = 3

C9_Witness ==
  /\ pc = "done"
  /\ Len(Steps) = 3
  /\ currentRunLog.status = "success"
  /\ Steps[2].output.a = 1
  /\ Steps[3].input.a = 1
  /\ stepInput.a = 2
  /\ stepInput.b = 3

Appended(prev, cur) == Len(cur) = Len(prev) + 1 /\ SubSeq(cur, 1, Len(prev)) = prev
LastReplaced(prev, cur) ==
  /\ Len(cur) = Len(prev) /\ Len(prev) > 0
  /\ SubSeq(cur, 1, Len(prev) - 1) = SubSeq(prev, 1, Len(prev) - 1)
  /\ Last(cur) # Last(prev)
  /\ Last(cur).id = Last(prev).id
\* a step delivered in a terminal state was delivered 'pending' in an earlier snapshot
PendingBeforeTerminal(d) ==
  \A i \in 1..Len(d) : \A k \in 1..Len(d[i].steps) :
    d[i].steps[k].status \in Terminal =>
      \E j \in 1..(i - 1) : /\ Len(d[j].steps) >= k
                            /\ d[j].steps[k].id = d[i].steps[k].id
                            /\ d[j].steps[k].status = "pending"

\* C10 (as claimed): the observer receives exactly the values assigned to the run, in
\* assignment order; a step is delivered 'pending' before it is delivered terminal;
\* the steps of each snapshot are the previous snapshot's with one step appended or
\* the last step replaced.
C10_SnapshotsAppendOrReplace ==
  /\ delivered = assigned
  /\ PendingBeforeTerminal(delivered)
  /\ \A i \in 2..Len(delivered) :
       \/ Appended(delivered[i - 1].steps, delivered[i].steps)
       \/ LastReplaced(delivered[i - 1].steps, delivered[i].steps)

\* C10 (amended): as claimed, except that the snapshot announcing the status 'success'
\* carries the steps of the previous snapshot unchanged.
C10_SnapshotsInMutationOrder ==
  /\ delivered = assigned
  /\ PendingBeforeTerminal(delivered)
  /\ \A i \in 2..Len(delivered) :
       \/ Appended(delivered[i - 1].steps, delivered[i].steps)
       \/ LastReplaced(delivered[i - 1].steps, delivered[i].steps)
       \/ /\ delivered[i].steps = delivered[i - 1].steps
          /\ delivered[i - 1].status = "running"
          /\ delivered[i].status = "success"

C10_Witness ==
  /\ pc = "done"
  /\ currentRunLog.status = "success"
  /\ Len(Steps) = 3
  /\ Len(delivered) = 8

\* the steps of the current snapshot that are no longer pending
DecidedSteps == SelectSeq(Steps, LAMBDA st : st.status # "pending")
TerminalNotifications == { i \in 1..Len(delivered) : delivered[i].status \in Terminal }

\* C11: the observer is called once after every mutation of the run (its creation with
\* status 'running' and no steps, each append of a pending step, each completion of a
\* step, the terminal status change), each time with the whole current snapshot; no
\* notification carries a terminal status before the run is over, and when it is over
\* exactly one does, the last one.
C11_ObserverNotifiedPerMutation ==
  /\ delivered = assigned
  /\ pc = "start" => delivered = << >>
  /\ pc # "start" =>
       /\ delivered[1].status = "running" /\ delivered[1].steps = << >>
       /\ Last(delivered) = currentRunLog
       /\ Len(delivered) = 1 + Len(Steps) + Len(DecidedSteps)
                             + (IF currentRunLog.status = "success" THEN 1 ELSE 0)
  /\ pc # "done" => TerminalNotifications = {}
  /\ pc = "done" => TerminalNotifications = {Len(delivered)}

C11_Witness ==
  /\ pc = "done"
  /\ currentRunLog.status = "success"
  /\ Len(Steps) = 2
  /\ Len(delivered) = 6
  /\ delivered[2].steps[1].status = "pending"
  /\ delivered[5].status = "running"

\* a relation closed under composition
RECURSIVE TransitiveClosure(_)
TransitiveClosure(R) ==
  LET R2 == R \cup { <<pq[1][1], pq[2][2]>> : pq \in { x \in R \X R : x[1][2] = x[2][1] } }
  IN IF R2 = R THEN R ELSE TransitiveClosure(R2)

\* a leads to b by one or more of the edges es
Reaches(es, a, b) ==
  <<a, b>> \in TransitiveClosure({ <<es[i].source, es[i].target>> : i \in 1..Len(es) })

\* the edges between nodes of the list
EdgesWithin(ns, es) ==
  SelectSeq(es, LAMBDA e : e.source \in IdsOf(ns) /\ e.target \in IdsOf(ns))
EdgePath(es, path) ==
  /\ Len(es) = Len(path)
  /\ \A i \in 1..Len(es) : es[i].source = path[i][1] /\ es[i].target = path[i][2]

\* C12: hasCycle(nodes, edges) returns true if and only if some node of the graph can
\* reach itself by following edges in their direction from node to node (a self-loop
\* included); it returns true for A -> B -> C -> A and false for A -> B -> C.
C12_HasCycleIffNodeReachesItself ==
  call.fn = "hasCycle" =>
    /\ call.returned[1] <=>
         \E n \in IdsOf(call.nodes) : Reaches(EdgesWithin(call.nodes, call.edges), n, n)
    /\ Len(call.nodes) = 3 /\ EdgePath(call.edges, << <<"A", "B">>, <<"B", "C">>, <<"C", "A">> >>)
         => call.returned[1] = TRUE
    /\ Len(call.nodes) = 3 /\ EdgePath(call.edges, << <<"A", "B">>, <<"B", "C">> >>)
         => call.returned[1] = FALSE

C12_Witness ==
  /\ call.fn = "hasCycle"
  /\ Len(call.nodes) = 3
  /\ EdgePath(call.edges, << <<"A", "B">>, <<"B", "C">>, <<"C", "A">> >>)
  /\ call.returned = << TRUE >>

\* C13: getUpstreamNodes(nodes, edges, targetId) returns exactly the strict ancestors of
\* the target (the nodes from which the target is reachable along edges) and never the
\* target itself, on every finite graph, cycles through the target included.
C13_UpstreamIsStrictAncestors ==
  call.fn = "getUpstreamNodes" =>
    LET ret == call.returned[1]
        t == call.targetNodeId
    IN /\ \A i \in 1..Len(ret) : ret[i].id # t
       /\ IdsOf(ret) = { n \in IdsOf(call.nodes) \ {t} : Reaches(call.edges, n, t) }

\* the number of entries of errors with message msg (and, where given, label)
Entries(errors, msg) == Len(SelectSeq(errors, LAMBDA e : e.msg = msg))
EntriesFor(errors, msg, label) ==
  Len(SelectSeq(errors, LAMBDA e : e.msg = msg /\ "label" \in DOMAIN e /\ e.label = label))
NoTriggerMsg == "Workflow must have at least one Trigger node."
DisconnectedMsg == "Node is disconnected (no incoming connection)."
CycleMsg == "Workflow contains an infinite loop (cycle). Please remove the cycle."
NoServiceMsg == "Node is missing a service definition."
NoPathsMsg == "Condition has no outgoing paths."
HasTrigger(ns) == \E i \in 1..Len(ns) : ns[i].type = NodeType_TRIGGER
Orphan(n, es) == n.type # NodeType_TRIGGER /\ ~(\E i \in 1..Len(es) : es[i].target = n.id)
Cyclic(ns, es) == \E n \in IdsOf(ns) : Reaches(EdgesWithin(ns, es), n, n)
DeadEndCondition(n, es) ==
  n.type = NodeType_CONDITION /\ ~(\E i \in 1..Len(es) : es[i].source = n.id)

\* C14: validateWorkflow returns (never throws) and accumulates every violation: one
\* entry for a missing TRIGGER, one per non-TRIGGER node without incoming edge (with that
\* node's label), one for a cycle, one per node with an empty service, one per CONDITION
\* node without outgoing edge, and nothing else; isValid holds iff errors is empty.
C14_ValidationAccumulatesAll ==
  call.fn = "validateWorkflow" =>
    LET ns == call.nodes
        es == call.edges
        errors == call.returned[1].errors
        bool(b) == IF b THEN 1 ELSE 0
    IN /\ Len(call.returned) = 1
       /\ call.returned[1].isValid <=> errors = << >>
       /\ Entries(errors, NoTriggerMsg) = bool(~HasTrigger(ns))
       /\ Entries(errors, CycleMsg) = bool(Cyclic(ns, es))
       /\ \A i \in 1..Len(ns) :
            /\ EntriesFor(errors, DisconnectedMsg, ns[i].label) = bool(Orphan(ns[i], es))
            /\ EntriesFor(errors, NoServiceMsg, ns[i].label) = bool(ns[i].service = "")
            /\ EntriesFor(errors, NoPathsMsg, ns[i].label) = bool(DeadEndCondition(ns[i], es))
       /\ Len(errors) = Entries(errors, NoTriggerMsg) + Entries(errors, CycleMsg)
                        + Entries(errors, DisconnectedMsg) + Entries(errors, NoServiceMsg)
                        + Entries(errors, NoPathsMsg)
       /\ \A k \in 1..Len(errors) :
            "label" \in DOMAIN errors[k] => \E i \in 1..Len(ns) : ns[i].label = errors[k].label
       /\ call.returned[1].isValid <=>
            /\ HasTrigger(ns)
            /\ ~Cyclic(ns, es)
            /\ \A i \in 1..Len(ns) :
                 ~Orphan(ns[i], es) /\ ns[i].service # "" /\ ~DeadEndCondition(ns[i], es)

C14_Witness ==
  /\ call.fn = "validateWorkflow"
  /\ ~call.returned[1].isValid
  /\ \A msg \in {NoTriggerMsg, DisconnectedMsg, CycleMsg, NoServiceMsg, NoPathsMsg} :
       Entries(call.returned[1].errors, msg) >= 1
  /\ Entries(call.returned[1].errors, DisconnectedMsg) = 2

\* the positions where the global scan of a string finds a placeholder
RECURSIVE MatchStarts(_, _)
MatchStarts(chars, i) ==
  IF i > Len(chars) THEN {}
  ELSE LET n == MatchAt(chars, i)
       IN IF n = 0 THEN MatchStarts(chars, i + 1)
                   ELSE {i} \cup MatchStarts(chars, i + n + 4)
\* the placeholder found at position i, braces included, and its trimmed identifier
TokenAt(chars, i) == SubSeq(chars, i, i + MatchAt(chars, i) + 3)
IdentifierAt(chars, i) == Trim(SubSeq(chars, i + 2, i + MatchAt(chars, i) + 1))
Contains(chars, sub) ==
  \E j \in 1..(Len(chars) - Len(sub) + 1) : SubSeq(chars, j, j + Len(sub) - 1) = sub
HasPlaceholder(chars) == \E i \in 1..Len(chars) : MatchAt(chars, i) > 0
HasBrace(chars) == \E i \in 1..Len(chars) : chars[i] \in {"{", "}"}

\* C15: resolveConfig leaves every placeholder whose trimmed identifier is not a key of
\* the context untouched: the token is in the result character for character, the
\* whitespace inside its braces included; a string none of whose placeholders is
\* resolvable, like "Hello {{missing}}" with the empty context, is returned as it is.
C15_AbsentPlaceholderUntouched ==
  call.fn = "resolveConfig" /\ call.config.type = "string" =>
    LET chars == call.config.chars
        out == call.returned[1].chars
        absent == { i \in MatchStarts(chars, 1) :
                      IdentifierAt(chars, i) \notin DOMAIN call.context }
    IN /\ \A i \in absent : Contains(out, TokenAt(chars, i))
       /\ absent = MatchStarts(chars, 1) => out = chars

C17_ConditionStoresResult ==
  \A k \in 1..Len(Steps) :
    LET n == NodeOfStep(k)
        in == Steps[k].input
        out == Steps[k].output
    IN (n.type = NodeType_CONDITION /\ Steps[k].status = "success") =>
         /\ "conditionResult" \in DOMAIN out
         /\ out.conditionResult = ConditionResult(n, in, resolveConfig(n.config, in))

\* the service keys with a case of their own in processNode's switch
HandledServices == {"gmail", "slack", "shopify", "gemini", "ai", "gpt", "system"}
Unhandled(n) == n.type # NodeType_SCRIPT /\ ToLowerCase(n.service) \notin HandledServices
GenericLines(lines) == SelectSeq(lines, LAMBDA l : l.ev = "Executing generic handler")
OutgoingEdges(id) == SelectSeq(edges, LAMBDA e : e.source = id)

\* C18: a node that is not a SCRIPT and whose service has no handler of its own is not an
\* error: its step ends 'success' with one generic-handler log line (naming the service)
\* between the activity events, its output equals its input, and traversal goes on
\* along the node's first outgoing edge.
C18_UnhandledServiceSucceeds ==
  \A k \in 1..Len(Steps) :
    LET n == NodeOfStep(k)
        out == OutgoingEdges(n.id)
    IN (Unhandled(n) /\ Steps[k].status # "pending") =>
         /\ Steps[k].status = "success"
         /\ Steps[k].output = Steps[k].input
         /\ Len(GenericLines(Steps[k].logs)) = 1
         /\ Steps[k].logs[3] = [ev |-> "Executing generic handler", service |-> n.service]
         /\ Len(Steps[k].logs) = 4
         /\ Len(attemptsOf[k]) = 1
         /\ (DecidedAfter(k) /\ n.type # NodeType_CONDITION /\ Len(out) > 0
             /\ NodeById(nodes, out[1].target) # 0) =>
              /\ ExecutedAfter(k) = out[1].target
              /\ pc = "done" => k < Len(Steps)

C18_Witness ==
  /\ Len(Steps) = 3
  /\ Unhandled(NodeOfStep(1))
  /\ Steps[1].status = "success"
  /\ Steps[1].output = Steps[1].input
  /\ Steps[2].nodeId = OutgoingEdges(Steps[1].nodeId)[1].target
  /\ Unhandled(NodeOfStep(3))
  /\ NodeOfStep(3).type = NodeType_ACTION
  /\ Steps[3].status = "success"
  /\ pc = "done"

\* the positions of the nodes that are the target of no edge
Untargeted == { i \in 1..Len(nodes) : \A j \in 1..Len(edges) : edges[j].target # nodes[i].id }
ExpectedStart ==
  IF Untargeted # {} THEN CHOOSE i \in Untargeted : \A j \in Untargeted : i <= j ELSE 1

\* C19: executeWorkflow starts at the first node, in list order, that is the target of no
\* edge, and at the first node of the list when every node is a target; on a non-empty
\* graph every run has a first step and it is the step of that node.
C19_StartsAtFirstUntargetedNode ==
  Len(nodes) > 0 =>
    /\ pc = "loop" /\ Steps = << >> => currentNode = ExpectedStart
    /\ \A i \in 1..Len(delivered) :
         Len(delivered[i].steps) > 0 => delivered[i].steps[1].nodeId = nodes[ExpectedStart].id
    /\ pc = "done" => Len(Steps) > 0 /\ Steps[1].nodeId = nodes[ExpectedStart].id

\* every node is a target: the run started at nodes[0]
C19_Witness ==
  /\ Untargeted = {}
  /\ Len(Steps) >= 2
  /\ Steps[1].nodeId = nodes[1].id
  /\ Steps[1].status = "success"

\* two untargeted nodes, the first of them not a trigger
C19_WitnessTie ==
  /\ pc = "done"
  /\ Cardinality(Untargeted) = 2
  /\ nodes[1].type # NodeType_TRIGGER
  /\ Steps[1].nodeId = nodes[1].id

\* the only untargeted node stands last in the list
C19_WitnessLaterNode ==
  /\ pc = "done"
  /\ ExpectedStart = 3
  /\ Steps[1].nodeId = nodes[3].id

\* the label executeWorkflow looks for after a condition step with output out
WantedLabel(out) ==
  IF "conditionResult" \in DOMAIN out /\ out.conditionResult = TRUE THEN "true" ELSE "false"
NoMatchingEdge(id, out) ==
  \A i \in 1..Len(edges) :
    edges[i].source = id =>
      edges[i].label = Undefined \/ ToLowerCase(edges[i].label) # WantedLabel(out)

\* C20: after a successful CONDITION step, when no outgoing edge of the node carries the
\* wanted label, the first outgoing edge in edge-list order is followed whatever its
\* label; when the node has no outgoing edge, traversal ends and the run ends 'success'.
C20_ConditionFallbackEdge ==
  \A k \in 1..Len(Steps) :
    LET n == NodeOfStep(k)
        out == OutgoingEdges(n.id)
    IN (n.type = NodeType_CONDITION /\ Steps[k].status = "success" /\ DecidedAfter(k)
        /\ NoMatchingEdge(n.id, Steps[k].output)) =>
         /\ (Len(out) > 0 /\ NodeById(nodes, out[1].target) # 0) =>
              /\ ExecutedAfter(k) = out[1].target
              /\ pc = "done" => k < Len(Steps)
         /\ Len(out) = 0 =>
              /\ k = Len(Steps)
              /\ (pc = "loop" /\ currentNode = 0) \/ pc = "done"
              /\ pc = "done" => currentRunLog.status = "success"

\* the condition result is false and the only outgoing edge is labelled 'true'
C20_Witness ==
  /\ Len(Steps) = 3
  /\ NodeOfStep(2).type = NodeType_CONDITION
  /\ Steps[2].status = "success"
  /\ "conditionResult" \in DOMAIN Steps[2].output
  /\ Steps[2].output.conditionResult = FALSE
  /\ Len(OutgoingEdges(Steps[2].nodeId)) = 1
  /\ OutgoingEdges(Steps[2].nodeId)[1].label = "true"
  /\ Steps[3].nodeId = OutgoingEdges(Steps[2].nodeId)[1].target
  /\ pc = "done"

\* a condition without outgoing edge ends the run with 'success'
C20_WitnessNoOutgoing ==
  /\ pc = "done"
  /\ currentRunLog.status = "success"
  /\ Len(Steps) = 2
  /\ NodeOfStep(2).type = NodeType_CONDITION
  /\ OutgoingEdges(Last(Steps).nodeId) = << >>

\* unlabelled edges: the first in edge-list order is followed, not the first in node order
C20_WitnessUnlabelled ==
  /\ Len(Steps) = 3
  /\ NodeOfStep(2).type = NodeType_CONDITION
  /\ Len(OutgoingEdges(Steps[2].nodeId)) = 2
  /\ \A i \in 1..2 : OutgoingEdges(Steps[2].nodeId)[i].label = Undefined
  /\ Steps[3].nodeId = "D"

AcyclicGraph == ~Cyclic(nodes, edges)
StepsOfNode(id) == Len(SelectSeq(Steps, LAMBDA st : st.nodeId = id))

\* C21: on a graph without cycles, with every doWork returning or throwing, a started
\* run eventually has a terminal status ('success' or 'failed'), and it never records
\* more than one step for a node.
C21_AcyclicRunTerminates ==
  /\ [](AcyclicGraph => \A i \in 1..Len(nodes) : StepsOfNode(nodes[i].id) <= 1)
  /\ AcyclicGraph ~> (currentRunLog.status \in Terminal)

\* a run over three nodes that ended after a retried step
C21_Witness ==
  /\ AcyclicGraph
  /\ pc = "done"
  /\ currentRunLog.status = "success"
  /\ Len(Steps) = 3
  /\ \E k \in 1..3 : Len(attemptsOf[k]) = 3

\* every node has a first outgoing edge that leads to a node, and none is a condition:
\* whatever node is executed, the edge followed after it leads on, round a cycle
FollowedCycle ==
  /\ Len(nodes) > 0
  /\ \A i \in 1..Len(nodes) :
       /\ nodes[i].type # NodeType_CONDITION
       /\ OutgoingEdges(nodes[i].id) # << >>
       /\ NodeById(nodes, OutgoingEdges(nodes[i].id)[1].target) # 0
NoStepFailed == \A k \in 1..Len(Steps) : Steps[k].status # "failed"

\* C22: executeWorkflow has no cycle guard: on a graph whose followed edges form a cycle
\* and while no step fails, the run has no terminal status, the loop condition stays
\* true, and the steps follow the edges round the cycle, the same nodes again and again.
C22_CycleNeverTerminates ==
  (FollowedCycle /\ NoStepFailed) =>
    /\ currentRunLog.status \notin Terminal
    /\ pc # "done"
    /\ pc = "loop" => currentNode # 0
    /\ \A k \in 1..(Len(Steps) - 1) :
         Steps[k + 1].nodeId = OutgoingEdges(Steps[k].nodeId)[1].target
    /\ Len(Steps) > Len(nodes) => \E k \in 1..Len(Steps) : StepsOfNode(Steps[k].nodeId) >= 2

\* the run is still going when the model stops following it, a node executed twice
C22_Witness ==
  /\ FollowedCycle
  /\ Len(Steps) = MaxSteps
  /\ \A k \in 1..Len(Steps) : Steps[k].status = "success"
  /\ StepsOfNode(Steps[1].nodeId) >= 2
  /\ currentRunLog.status = "running"
  /\ pc = "loop"
  /\ currentNode # 0

\* the failed attempts of the current dispatch, and its wait(ms) calls inside withRetry
\* (the first element of waits is processNode's own wait before withRetry)
FailedAttempts == Len(SelectSeq(Last(attemptsOf), Failed))
BackoffWaits == Tail(waits)

\* C23: in withRetry the wait after the k-th failed attempt is BASE_DELAY * 2^(k-1) ms,
\* 1000 after the first failure and 2000 after the second; there is a wait only when
\* another attempt follows: at most 2 per dispatch, none after the 3rd failure.
C23_BackoffWaits ==
  pc \in {"withRetry", "processed", "threw"} =>
    /\ Len(BackoffWaits) = (IF FailedAttempts >= 3 THEN 2 ELSE FailedAttempts)
    /\ Len(BackoffWaits) <= 2
    /\ Len(BackoffWaits) >= 1 => BackoffWaits[1] = 1000
    /\ Len(BackoffWaits) >= 2 => BackoffWaits[2] = 2000
    /\ pc = "withRetry" => Len(BackoffWaits) = attempt
    /\ pc = "threw" => FailedAttempts = 3 /\ BackoffWaits = << 1000, 2000 >>

\* three failures: two waits, and the error is thrown without a third
C23_Witness ==
  /\ pc = "threw"
  /\ FailedAttempts = 3
  /\ BackoffWaits = << 1000, 2000 >>

\* two failures, then the attempt that follows the second wait succeeds
C23_WitnessRecovered ==
  /\ pc = "processed"
  /\ FailedAttempts = 2
  /\ BackoffWaits = << 1000, 2000 >>

\* position k of snapshot cur holds a terminal record that snapshot prev did not hold there
CompletedAt(prev, cur, k) ==
  /\ cur.steps[k].status \in Terminal
  /\ k > Len(prev.steps) \/ prev.steps[k] # cur.steps[k]
SameIdentity(a, b) ==
  /\ a.id = b.id
  /\ a.nodeId = b.nodeId
  /\ a.nodeLabel = b.nodeLabel
  /\ a.startTime = b.startTime
  /\ a.input = b.input

\* C24: completing a step replaces it in place: the 'success' or 'failed' record stands
\* where the pending record stood, with the same id, nodeId, nodeLabel, startTime and
\* input; the length of steps and all other steps are unchanged.
C24_StepReplacedInPlace ==
  \A i \in 1..(Len(delivered) - 1) :
    LET prev == delivered[i]
        cur == delivered[i + 1]
    IN \A k \in 1..Len(cur.steps) :
         CompletedAt(prev, cur, k) =>
           /\ Len(cur.steps) = Len(prev.steps)
           /\ prev.steps[k].status = "pending"
           /\ SameIdentity(prev.steps[k], cur.steps[k])
           /\ \A j \in 1..Len(cur.steps) : j # k => cur.steps[j] = prev.steps[j]

\* a run in which a step was completed as 'success' and a later one as 'failed'
C24_Witness ==
  /\ Len(delivered) >= 5
  /\ \E i \in 1..(Len(delivered) - 1) :
       /\ Len(delivered[i + 1].steps) = 2
       /\ CompletedAt(delivered[i], delivered[i + 1], 2)
       /\ delivered[i + 1].steps[2].status = "failed"
       /\ delivered[i + 1].steps[1].status = "success"

PendingPositions(run) == { k \in 1..Len(run.steps) : run.steps[k].status = "pending" }

\* C25: a run executes one node at a time: in every snapshot at most one step is
\* 'pending' and it is the last one, and a step is appended only when the step before it
\* has been replaced by a 'success' record.
C25_OneNodeAtATime ==
  \A i \in 1..Len(delivered) :
    LET run == delivered[i]
    IN /\ Cardinality(PendingPositions(run)) <= 1
       /\ PendingPositions(run) \subseteq {Len(run.steps)}
       /\ \A k \in 1..(Len(run.steps) - 1) : run.steps[k].status = "success"
       /\ (i > 1 /\ Len(run.steps) > Len(delivered[i - 1].steps)) =>
            /\ Len(run.steps) = Len(delivered[i - 1].steps) + 1
            /\ Last(run.steps).status = "pending"
            /\ \A k \in 1..Len(delivered[i - 1].steps) :
                 delivered[i - 1].steps[k].status = "success"

\* the third step is pending behind two 'success' records
C25_Witness ==
  /\ pc = "withRetry"
  /\ Len(Steps) = 3
  /\ PendingPositions(currentRunLog) = {3}
  /\ Steps[1].status = "success"
  /\ Steps[2].status = "success"
  /\ Last(delivered) = currentRunLog

\* no step is pending in a snapshot with a terminal status
NoPendingWhenTerminal(run) ==
  run.status \in Terminal => PendingPositions(run) = {}

\* C26: in a snapshot with a terminal status no step is 'pending': with status 'success'
\* every step is 'success'; with status 'failed' exactly one step is 'failed', it is the
\* last step, and every earlier step is 'success'.
C26_TerminalSnapshotHasNoPending ==
  \A i \in 1..Len(delivered) :
    LET run == delivered[i]
        failed == { k \in 1..Len(run.steps) : run.steps[k].status = "failed" }
    IN /\ NoPendingWhenTerminal(run)
       /\ run.status = "success" => \A k \in 1..Len(run.steps) : run.steps[k].status = "success"
       /\ run.status = "failed" =>
            /\ failed = {Len(run.steps)}
            /\ Len(run.steps) > 0
            /\ \A k \in 1..(Len(run.steps) - 1) : run.steps[k].status = "success"
       /\ run.status = "running" => failed = {}

\* a failed run of three steps
C26_Witness ==
  /\ pc = "done"
  /\ currentRunLog.status = "failed"
  /\ Len(Steps) = 3
  /\ Steps[3].status = "failed"
  /\ Last(delivered) = currentRunLog

\* a successful run of three steps
C26_WitnessSuccess ==
  /\ pc = "done"
  /\ currentRunLog.status = "success"
  /\ Len(Steps) = 3
  /\ Last(delivered) = currentRunLog

\* the context keys a node of this kind assigns in its output
WrittenKeys(n) ==
  IF n.type = NodeType_SCRIPT THEN {"a", "b", "result", "status"}
  ELSE IF ToLowerCase(n.service) = "shopify" THEN {"orderId", "totalValue"}
  ELSE IF ToLowerCase(n.service) \in {"gemini", "ai", "gpt"} THEN {"aiResult"}
  ELSE IF ToLowerCase(n.service) = "system" /\ n.type = NodeType_CONDITION
         THEN {"conditionResult"}
  ELSE {}

\* C27: the context only grows: the output of a successful step has every key of the
\* step's input, with the input's value unless the node writes that key; the input of
\* the next step has every key of that output with its value; so the keys of the initial
\* input and of every earlier output are in the input of every later step.
C27_ContextOnlyGrows ==
  /\ Len(Steps) > 0 => Steps[1].input = initialInput
  /\ \A k \in 1..Len(Steps) :
       Steps[k].status = "success" =>
         /\ DOMAIN Steps[k].input \subseteq DOMAIN Steps[k].output
         /\ \A key \in DOMAIN Steps[k].input :
              key \notin WrittenKeys(NodeOfStep(k)) =>
                Steps[k].output[key] = Steps[k].input[key]
  /\ \A k \in 1..(Len(Steps) - 1) :
       /\ DOMAIN Steps[k + 1].input = DOMAIN Steps[k].output
       /\ \A key \in DOMAIN Steps[k].output : Steps[k + 1].input[key] = Steps[k].output[key]
  /\ \A j \in 1..Len(Steps) : \A k \in j..Len(Steps) :
       /\ DOMAIN initialInput \subseteq DOMAIN Steps[k].input
       /\ DOMAIN Steps[j].input \subseteq DOMAIN Steps[k].input

\* a key of the initial input reaches the third step unchanged beside keys written on
\* the way
C27_Witness ==
  /\ Len(Steps) = 3
  /\ Steps[3].status = "success"
  /\ "trigger" \in DOMAIN initialInput
  /\ Steps[3].output.trigger = initialInput.trigger
  /\ Cardinality(DOMAIN Steps[3].input) >= 3

\* the node the loop goes to when the branch is decided by the comparison evaluated on
\* this step's input
FreshBranch(k) ==
  LET n == NodeOfStep(k)
      in == Steps[k].input
  IN NextNode(nodes, edges, n,
              [conditionResult |-> ConditionResult(n, in, resolveConfig(n.config, in))])

\* C28 (as claimed): the branch taken after a successful CONDITION node is decided by the
\* conditionResult this node's evaluation computed in the current step, never by a
\* conditionResult that was already in the context.
C28_BranchDecidedByOwnResult ==
  \A k \in 1..Len(Steps) :
    (NodeOfStep(k).type = NodeType_CONDITION /\ Steps[k].status = "success"
     /\ DecidedAfter(k)) =>
       IF FreshBranch(k) = 0
         THEN ExecutedAfter(k) = Undefined
         ELSE ExecutedAfter(k) = nodes[FreshBranch(k)].id

\* a CONDITION node with service 'system' decides against the conditionResult it inherited
C28_WitnessSystem ==
  /\ Len(Steps) = 3
  /\ NodeOfStep(2).type = NodeType_CONDITION
  /\ "conditionResult" \in DOMAIN Steps[2].input
  /\ Steps[2].input.conditionResult = TRUE
  /\ Steps[2].output.conditionResult = FALSE
  /\ Steps[3].nodeId = nodes[FreshBranch(2)].id
  /\ Steps[3].nodeId = "D"

\* the index of the edge chosen after step k, 0 when the node has no outgoing edge
ChosenEdge(k) ==
  LET n == NodeOfStep(k)
      out == Steps[k].output
      first == FindIndex(edges, LAMBDA e : e.source = n.id)
      taken == IF "conditionResult" \in DOMAIN out THEN out.conditionResult ELSE FALSE
      targetLabel == IF taken = TRUE THEN "true" ELSE "false"
      labelled == FindIndex(edges, LAMBDA e : e.source = n.id /\ LabelMatches(e, targetLabel))
  IN IF n.type = NodeType_CONDITION /\ labelled # 0 THEN labelled ELSE first

DanglingAfter(k) ==
  /\ Steps[k].status = "success"
  /\ DecidedAfter(k)
  /\ ChosenEdge(k) # 0
  /\ NodeById(nodes, edges[ChosenEdge(k)].target) = 0

\* C29: when the edge chosen after a successful step points to an id that is not a node,
\* traversal ends there: the step is the last one, no step is recorded for the missing
\* id, no step has failed, and the run ends with status 'success'.
C29_DanglingEdgeEndsRun ==
  \A k \in 1..Len(Steps) :
    DanglingAfter(k) =>
      /\ k = Len(Steps)
      /\ (pc = "loop" /\ currentNode = 0) \/ pc = "done"
      /\ \A j \in 1..Len(Steps) :
           /\ Steps[j].nodeId # edges[ChosenEdge(k)].target
           /\ Steps[j].status = "success"
      /\ currentRunLog.status # "failed"
      /\ pc = "done" => currentRunLog.status = "success"

\* the run ended 'success' after the trigger although the trigger has a second edge to
\* an existing node
C29_Witness ==
  /\ pc = "done"
  /\ currentRunLog.status = "success"
  /\ Len(Steps) = 1
  /\ DanglingAfter(1)
  /\ edges[ChosenEdge(1)].target = "Z"
  /\ Len(OutgoingEdges(Steps[1].nodeId)) = 2
  /\ NodeById(nodes, OutgoingEdges(Steps[1].nodeId)[2].target) # 0

EntriesOf(id) == { i \in 1..Len(runs) : runs[i].id = id }

\* C30 (as claimed): with the realtime subscription active, after any interleaving of
\* updateRun calls and realtime INSERT and UPDATE events for a run, the provider's runs
\* list has at most one entry per run id.
C30_OneEntryPerRunId ==
  \A id \in RunIds : Cardinality(EntriesOf(id)) <= 1

\* without a realtime INSERT handled, updateRun alone keeps one entry per id
C30_WitnessOptimistic ==
  /\ updateRunCalls = MaxUpdates
  /\ Len(runs) = 2
  /\ \A id \in RunIds : Cardinality(EntriesOf(id)) = 1
  /\ \A id \in RunIds : runs[CHOOSE i \in EntriesOf(id) : TRUE].workflowName = "My Flow"

====
